---------------------------- MODULE Spec2Model ----------------------------
(***************************************************************************)
(* LDP control plane of ryu/services/protocols/ldp_new (manager.py,        *)
(* peer.py, ldp_util.py): the peer registry and role decision of           *)
(* LDPManager.hello_received, the session transport of SessionServer, and  *)
(* the per-peer session engine of Peer (conn_handle, _recv_loop,           *)
(* _handle_msg, state_change and the LDPState classes).                    *)
(*                                                                         *)
(* Reading of the source.  The revision under src/ is unfinished: some     *)
(* identifiers name nothing (Peer reads self.state but __init__ sets       *)
(* self._state; _handle_msg calls change_state, the method is              *)
(* state_change; it compares the state with ldp.LDP_MSG_OPERATIONAL and    *)
(* ldp.LDP_MSG_OPEN_REC; the manager passes four arguments to Peer;       *)
(* SessionServer.start passes the TLV object to connect and hands the      *)
(* result of connect, not the socket, to conn_handle).  Each such          *)
(* identifier is read as the definition it evidently names.  Everything    *)
(* else is followed as written: the order of the statements, their         *)
(* conditions, the transitions of the state classes and the keys of the    *)
(* two state maps.                                                         *)
(***************************************************************************)
EXTENDS Integers, Sequences, FiniteSets, TLC

(***************************************************************************)
(* Bounds of the model.                                                    *)
(***************************************************************************)
MaxConns == 2     \* TCP connections one session server sees
MaxMsgs == 3      \* PDUs delivered to one peer object
MaxOctet == 2     \* octets of the router ids range over 0..MaxOctet
MaxDrops == 2     \* undecodable datagrams counted per interface
MaxSends == 2     \* sendto calls of each caller other than the Hello timer
MaxDgrams == 2    \* datagrams the receive loop of the DiscoverServer takes
MaxCalls == 3     \* calls of the API function core.start
MaxFires == 2     \* callbacks of the Hello timer of the core service
MaxPdus == 2      \* PDUs in the octet stream a Peer receives
MaxTlvs == 2      \* TLVs of a message given to the codec
MaxElems == 2     \* FEC elements of a FEC TLV, addresses of an address list
MaxRepeats == 2   \* further serialize calls on a message already serialized

\* The enabled interfaces, the keys of LDPManager.interfaces and .peers.
Ifaces == {"eth0", "eth1"}
ConnIds == 1..MaxConns

NoSocket == 0     \* Peer._socket = None

(***************************************************************************)
(* Router ids are dotted quads, modelled as 4-tuples of octets.            *)
(***************************************************************************)
RouterIds == {<<1, 1, a, b>> : a \in 0..MaxOctet, b \in 0..MaxOctet}

\* config.router_id of this LSR (test_app.py configures '1.1.1.1').
LocalRouterId == <<1, 1, 1, 1>>

\* Router ids carried by the Hellos of the neighbors: one below and one
\* above the local id in network byte order.
NeighborIds == {<<1, 1, 0, 2>>, <<1, 1, 2, 0>>}

\* Mutants of from_inet_ptoi: the octets read in host (little-endian) order,
\* and the octets added without their positional weights.
from_inet_ptoi_LittleEndian(rid) ==
    ((rid[4] * 256 + rid[3]) * 256 + rid[2]) * 256 + rid[1]

from_inet_ptoi_Sum(rid) == rid[1] + rid[2] + rid[3] + rid[4]

\* ldp_util.from_inet_ptoi: inet_pton packs the four octets in network
\* order, long(hex, 16) reads them as one big-endian number.
from_inet_ptoi(rid) == ((rid[1] * 256 + rid[2]) * 256 + rid[3]) * 256 + rid[4]

\* LDPManager.hello_received: is_active = ptoi(peer_router_id) < ptoi(own).
IsActive(local, peer) == from_inet_ptoi(peer) < from_inet_ptoi(local)

(***************************************************************************)
(* Session states of ldp_event and message types of the codec.             *)
(***************************************************************************)
LDP_STATE_NON_EXISTENT == "NonExistent"
LDP_STATE_PRESENT == "Present"
LDP_STATE_INITIAL == "Initial"
LDP_STATE_OPEN_SENT == "OpenSent"
LDP_STATE_OPEN_REC == "OpenRec"
LDP_STATE_OPERATIONAL == "Operational"

LDP_MSG_INIT == "Init"
LDP_MSG_KEEPALIVE == "KeepAlive"
LDP_MSG_ADDR == "Address"
LDP_MSG_NOTIFICATION == "Notification"
\* _handle_msg tests for ldp.LDP_MSG_SHUTDOWN; the codec defines and decodes
\* no message of that type.
LDP_MSG_SHUTDOWN == "Shutdown"

\* Message types a session socket can deliver as one complete PDU.
RecvTypes == {LDP_MSG_INIT, LDP_MSG_KEEPALIVE, LDP_MSG_ADDR, LDP_MSG_NOTIFICATION}

VARIABLES
    peers,            \* LDPManager.peers: interface -> Peer object or NoPeer
    session,          \* per interface: the spawned _session_thread / SessionServer
    conn,             \* per interface and connection: the conn_handle greenlet
    closed,           \* per interface: sockets the remote end has closed
    nrecv,            \* per interface: number of PDUs delivered to the peer so far
    out,              \* per interface: the effects of the peer's latest step, in order
    trail,            \* per interface: the states the peer entered, in order
    rcvd,             \* per interface: message types _handle_msg was given
    sent,             \* per interface: message types the peer sent
    heard,            \* router ids of the Hellos hello_received was given
    initalIsInitial,  \* whether ldp_event.LDP_STATE_INITAL equals LDP_STATE_INITIAL
    lsr,              \* two LSRs on one link: router id and the role each decided
    ntf,              \* one session under every outcome of the decoder
    disc,             \* discovery: the receive loops and the datagrams dropped
    chan,             \* one DiscoverServer: its write lock, its senders, the Hello timer
    act,              \* the core manager activity and the callers of core.start
    rbuf,             \* one Peer._recv_buff and the byte stream that fills it
    codec,            \* one message under LDPMessage.serialize and LDPMessage.parser
    rtconf,           \* the settings given to core.start and what became of the call
    life,             \* one Activity under start and stop
    proc,             \* one LdpProcessor: its destination queues and its wake-up event
    tmr               \* one interface Timer and the firings spawned for it

\* The variables of the specifications of single components below.
comps == <<life, proc, tmr>>
units == <<rbuf, codec, rtconf, comps>>

vars == <<peers, session, conn, closed, nrecv, out, trail, rcvd, sent, heard,
          initalIsInitial, lsr, ntf, disc, chan, act, units>>

history == <<out, trail, rcvd, sent>>

\* What the session actions leave alone.
fixed == <<heard, initalIsInitial, lsr, ntf, disc, chan, act, units>>

\* The components that take no part in a specification.
CompsIdle ==
    /\ life = [pc |-> "none"]
    /\ proc = [pc |-> "none"]
    /\ tmr = [pc |-> "none"]

NoPeer == [exists |-> FALSE]

\* Peer.__init__
NewPeer(rid) ==
    [exists |-> TRUE,
     router_id |-> rid,
     sock |-> NoSocket,
     state |-> LDP_STATE_NON_EXISTENT,
     map |-> "empty",
     impl |-> "unset"]

(***************************************************************************)
(* The LDPState classes: new_state() and action().                         *)
(***************************************************************************)
NewState(cls) ==
    CASE cls = "LDPStateNonExistent" -> LDP_STATE_INITIAL
      [] cls = "LDPActiveStateInitial" -> LDP_STATE_OPEN_SENT
      [] cls = "LDPPassiveStateInitial" -> LDP_STATE_OPEN_REC
      [] cls = "LDPStateOpenSent" -> LDP_STATE_OPERATIONAL
      [] cls = "LDPStateOpenRec" -> LDP_STATE_OPERATIONAL
      [] cls = "LDPStateOperational" -> LDP_STATE_NON_EXISTENT

Entry(k, x, y, s) == [k |-> k, x |-> x, y |-> y, s |-> s]

\* Peer.send_init / send_keepalive / start_keepalive
send_init(sock) == Entry("send", LDP_MSG_INIT, "", sock)
send_keepalive(sock) == Entry("send", LDP_MSG_KEEPALIVE, "", sock)
start_keepalive(sock) == Entry("timer", "keepalive", "", sock)
\* Mutant of send_notification: the Notification is sent and the socket is
\* left open.
send_notification_NoClose(sock) == <<Entry("send", LDP_MSG_NOTIFICATION, "", sock)>>

\* LdpProtocol.send_notification, which Peer.data_received calls: the
\* Notification is written, then self._socket.close().
send_notification(sock) ==
    <<Entry("send", LDP_MSG_NOTIFICATION, "", sock), Entry("close", "", "", sock)>>

\* action() of each state class, as the sequence of its effects.
StateAction(cls, sock) ==
    CASE cls = "LDPActiveStateInitial" -> <<send_init(sock)>>
      [] cls = "LDPStateOpenSent" -> <<send_keepalive(sock), start_keepalive(sock)>>
      [] cls = "LDPStateOpenRec" ->
            <<send_init(sock), send_keepalive(sock), start_keepalive(sock)>>
      [] OTHER -> <<>>

\* Peer._ACTIVE_STATE_MAP
ACTIVE_STATE_MAP ==
    [s \in {LDP_STATE_NON_EXISTENT, LDP_STATE_INITIAL, LDP_STATE_OPEN_SENT,
            LDP_STATE_OPEN_REC, LDP_STATE_OPERATIONAL} |->
        CASE s = LDP_STATE_NON_EXISTENT -> "LDPStateNonExistent"
          [] s = LDP_STATE_INITIAL -> "LDPActiveStateInitial"
          [] s = LDP_STATE_OPEN_SENT -> "LDPStateOpenSent"
          [] s = LDP_STATE_OPEN_REC -> "LDPStateOpenRec"
          [] s = LDP_STATE_OPERATIONAL -> "LDPStateOperational"]

\* The key the passive map spells LDP_STATE_INITAL.  The event module that
\* defines the state constants is not part of the source; whether that name
\* has the value of LDP_STATE_INITIAL is left open.
LDP_STATE_INITAL == IF initalIsInitial THEN LDP_STATE_INITIAL ELSE "Inital"

\* Peer._PASSIVE_STATE_MAP
PASSIVE_STATE_MAP ==
    [s \in {LDP_STATE_NON_EXISTENT, LDP_STATE_PRESENT, LDP_STATE_INITAL,
            LDP_STATE_OPEN_REC, LDP_STATE_OPERATIONAL} |->
        CASE s = LDP_STATE_NON_EXISTENT -> "LDPStateNonExistent"
          [] s = LDP_STATE_PRESENT -> "LDPStateNonExistent"
          [] s = LDP_STATE_INITAL -> "LDPPassiveStateInitial"
          [] s = LDP_STATE_OPEN_REC -> "LDPStateOpenRec"
          [] s = LDP_STATE_OPERATIONAL -> "LDPStateOperational"]

\* Peer._state_map: {} after __init__, one of the class maps after conn_handle.
StateMapOf(kind) ==
    CASE kind = "active" -> ACTIVE_STATE_MAP
      [] kind = "passive" -> PASSIVE_STATE_MAP
      [] OTHER -> [s \in {} |-> ""]

(***************************************************************************)
(* The result of a method of Peer: the object afterwards, the effects it   *)
(* had in order, and whether it raised.                                    *)
(***************************************************************************)
Result(p, eff, exc) == [p |-> p, out |-> eff, exc |-> exc]

\* Peer.state_change
state_change(p, new_state) ==
    IF p.state = new_state
    THEN Result(p, <<>>, FALSE)
    ELSE IF new_state \notin DOMAIN StateMapOf(p.map)
         THEN \* self.state is already assigned when the lookup raises KeyError
              Result([p EXCEPT !.state = new_state], <<>>, TRUE)
         ELSE LET cls == StateMapOf(p.map)[new_state]
              IN Result([p EXCEPT !.state = new_state, !.impl = cls],
                        <<Entry("event", p.state, new_state, p.sock)>>
                            \o StateAction(cls, p.sock),
                        FALSE)

\* Mutant of WantsStateChange: the KeepAlive branch without its test for
\* the Operational state.
WantsStateChange_NoOperationalTest(p, msg_type) ==
    msg_type \in {LDP_MSG_INIT, LDP_MSG_KEEPALIVE, LDP_MSG_SHUTDOWN}

\* The flag state_change that Peer._handle_msg computes: it starts True; an
\* Init leaves it (the test of the state only marks a TODO), a KeepAlive
\* clears it in Operational and leaves it otherwise, a Shutdown leaves it,
\* every other type clears it.
WantsStateChange(p, msg_type) ==
    IF msg_type = LDP_MSG_INIT
    THEN TRUE
    ELSE IF msg_type = LDP_MSG_KEEPALIVE
         THEN IF p.state = LDP_STATE_OPERATIONAL THEN FALSE ELSE TRUE
         ELSE IF msg_type = LDP_MSG_SHUTDOWN
              THEN TRUE
              ELSE FALSE

\* Peer._handle_msg
handle_msg(p, msg_type) ==
    IF WantsStateChange(p, msg_type)
    THEN IF p.impl = "unset"
         THEN Result(p, <<>>, TRUE)      \* no state object yet: AttributeError
         ELSE state_change(p, NewState(p.impl))
    ELSE Result(p, <<>>, FALSE)

\* LDPMessage.parser on one complete PDU of the given type: a Notification
\* has no constructor of its own and the parser raises TypeError on it.
ParserRaises(msg_type) == msg_type = LDP_MSG_NOTIFICATION

\* Peer.data_received for bytes that complete one PDU.  No exception of the
\* codec or of the engine is an LdpExc, so the except clause never sends.
data_received(p, msg_type) ==
    IF ParserRaises(msg_type)
    THEN Result(p, <<>>, TRUE)
    ELSE handle_msg(p, msg_type)

\* Peer.connection_lost: a docstring and no statement.
connection_lost(p) == p

\* Peer.conn_handle after _recv_loop has returned.
conn_handle_tail(p, is_active) ==
    LET q == [connection_lost(p) EXCEPT
                 !.map = IF is_active THEN "active" ELSE "passive"]
    IN state_change(q, LDP_STATE_INITIAL)

LSRs == {"A", "B"}

\* The variables of the other specifications while they are not in use.
NoNtf == [pc |-> "none"]
NoDisc == [pc |-> "none"]
NoChan == [pc |-> "none"]
NoAct == [pc |-> "none"]
NoBuf == [pc |-> "none"]
NoCodec == [pc |-> "none"]
NoConf == [pc |-> "none"]

(***************************************************************************)
(* Initial state: LDPManager.__init__, nothing discovered yet.             *)
(***************************************************************************)
NoConn == [pc |-> "none", wait |-> NoSocket]

Init ==
    /\ CompsIdle
    /\ peers = [i \in Ifaces |-> NoPeer]
    /\ session = [i \in Ifaces |-> [st |-> "none", is_active |-> FALSE]]
    /\ conn = [i \in Ifaces |-> [c \in ConnIds |-> NoConn]]
    /\ closed = [i \in Ifaces |-> {}]
    /\ nrecv = [i \in Ifaces |-> 0]
    /\ out = [i \in Ifaces |-> <<>>]
    /\ trail = [i \in Ifaces |-> <<>>]
    /\ rcvd = [i \in Ifaces |-> {}]
    /\ sent = [i \in Ifaces |-> {}]
    /\ heard = {}
    /\ initalIsInitial \in BOOLEAN
    /\ lsr = [x \in LSRs |-> [router_id |-> LocalRouterId, role |-> "undecided"]]
    /\ ntf = NoNtf
    /\ disc = NoDisc
    /\ chan = NoChan
    /\ act = NoAct
    /\ rbuf = NoBuf
    /\ codec = NoCodec
    /\ rtconf = NoConf

(***************************************************************************)
(* LDPManager.hello_received for a Hello of router id rid on interface i.  *)
(* The registry is keyed by the interface.                                 *)
(***************************************************************************)
HelloReceived(i, rid) ==
    /\ IF peers[i].exists
       THEN UNCHANGED <<peers, session>>
       ELSE /\ peers' = [peers EXCEPT ![i] = NewPeer(rid)]
            /\ session' = [session EXCEPT ![i] =
                              [st |-> "spawned",
                               is_active |-> IsActive(LocalRouterId, rid)]]
    /\ heard' = heard \cup {rid}
    /\ UNCHANGED <<conn, closed, nrecv, history, initalIsInitial, lsr, ntf, disc, chan, act, units>>

\* The TCP socket of a SessionServer is bound to (router_id, 646) without
\* SO_REUSEADDR: bind raises while another session socket holds the address.
AddressInUse(i) ==
    \E j \in Ifaces \ {i} : session[j].st \in {"listening", "connected"}

\* Mutant of SessionThread: conn_handle is spawned whether or not the
\* connect succeeded.
SessionThread_SpawnAlways(i) ==
    /\ session[i].st = "spawned"
    /\ \E ok \in BOOLEAN :
         IF AddressInUse(i) \/ (session[i].is_active /\ ~ok)
         THEN /\ session' = [session EXCEPT ![i].st = "failed"]
              /\ conn' = [conn EXCEPT ![i][1].pc = "spawned"]
         ELSE IF session[i].is_active
              THEN /\ session' = [session EXCEPT ![i].st = "connected"]
                   /\ conn' = [conn EXCEPT ![i][1].pc = "spawned"]
              ELSE /\ session' = [session EXCEPT ![i].st = "listening"]
                   /\ UNCHANGED conn
    /\ UNCHANGED <<peers, closed, nrecv, history, fixed>>

(***************************************************************************)
(* LDPManager._session_thread: SessionServer(bind_addr) and                *)
(* SessionServer.start.  The active side connects (ok: the connect         *)
(* succeeds within DEFAULT_CONN_TIMEOUT) and spawns conn_handle; the       *)
(* passive side listens and spawns _listen_loop.                           *)
(***************************************************************************)
SessionThread(i) ==
    /\ session[i].st = "spawned"
    /\ \E ok \in BOOLEAN :
         IF AddressInUse(i) \/ (session[i].is_active /\ ~ok)
         THEN /\ session' = [session EXCEPT ![i].st = "failed"]
              /\ UNCHANGED conn
         ELSE IF session[i].is_active
              THEN /\ session' = [session EXCEPT ![i].st = "connected"]
                   /\ conn' = [conn EXCEPT ![i][1].pc = "spawned"]
              ELSE /\ session' = [session EXCEPT ![i].st = "listening"]
                   /\ UNCHANGED conn
    /\ UNCHANGED <<peers, closed, nrecv, history, fixed>>

\* SessionServer._listen_loop: accept the next connection, spawn conn_handle.
Accept(i, c) ==
    /\ session[i].st = "listening"
    /\ conn[i][c].pc = "none"
    /\ \A d \in ConnIds : d < c => conn[i][d].pc # "none"
    /\ conn' = [conn EXCEPT ![i][c].pc = "spawned"]
    /\ UNCHANGED <<peers, session, closed, nrecv, history, fixed>>

\* Peer.conn_handle up to the first recv of _recv_loop.
ConnHandleStart(i, c) ==
    /\ conn[i][c].pc = "spawned"
    /\ peers' = [peers EXCEPT ![i].sock = c]
    /\ conn' = [conn EXCEPT ![i][c] = [pc |-> "recv", wait |-> c]]
    /\ out' = [out EXCEPT ![i] = <<>>]
    /\ UNCHANGED <<session, closed, nrecv, trail, rcvd, sent, fixed>>

\* The new states of the state-changed events among the effects eff.
EventTargets(eff) ==
    LET F[n \in 0..Len(eff)] ==
            IF n = 0 THEN <<>>
            ELSE IF eff[n].k = "event" THEN Append(F[n - 1], eff[n].y) ELSE F[n - 1]
    IN F[Len(eff)]

\* Record the effects eff of a step of the peer of interface i.
Effects(i, eff) ==
    /\ out' = [out EXCEPT ![i] = eff]
    /\ trail' = [trail EXCEPT ![i] = @ \o EventTargets(eff)]
    /\ rcvd' = [rcvd EXCEPT ![i] =
                    @ \cup {eff[n].x : n \in {m \in 1..Len(eff) : eff[m].k = "recv"}}]
    /\ sent' = [sent EXCEPT ![i] =
                    @ \cup {eff[n].x : n \in {m \in 1..Len(eff) : eff[m].k = "send"}}]

\* Mutant of LeaveLoop: the state the Peer is left in is kept on the class,
\* where every Peer object reads it.
LeaveLoop_SharedState(i, c, p, eff) ==
    LET t == conn_handle_tail(p, session[i].is_active)
    IN /\ peers' = [k \in Ifaces |->
                      IF k = i THEN t.p
                      ELSE IF peers[k].exists
                           THEN [peers[k] EXCEPT !.state = t.p.state, !.map = t.p.map,
                                                 !.impl = t.p.impl]
                           ELSE peers[k]]
       /\ Effects(i, eff \o t.out)
       /\ conn' = [conn EXCEPT ![i][c] =
                      [pc |-> IF t.exc THEN "dead" ELSE "done", wait |-> NoSocket]]

\* The greenlet of connection c leaves _recv_loop: connection_lost, then the
\* rest of conn_handle.  p is the Peer object and out its effects so far.
LeaveLoop(i, c, p, eff) ==
    LET t == conn_handle_tail(p, session[i].is_active)
    IN /\ peers' = [peers EXCEPT ![i] = t.p]
       /\ Effects(i, eff \o t.out)
       /\ conn' = [conn EXCEPT ![i][c] =
                      [pc |-> IF t.exc THEN "dead" ELSE "done", wait |-> NoSocket]]

\* Another greenlet of the peer is blocked in recv on socket s.
OtherReader(i, c, s) ==
    \E d \in ConnIds \ {c} : conn[i][d].pc = "recv" /\ conn[i][d].wait = s

(***************************************************************************)
(* One iteration of Peer._recv_loop in the greenlet of connection c: recv  *)
(* returns bytes that complete one PDU of type m, data_received handles    *)
(* it, and the loop calls recv again on self._socket.  When another        *)
(* greenlet already waits on that socket the hub either refuses the second *)
(* reader (RuntimeError) or lets it wait as well.                          *)
(***************************************************************************)
RecvData(i, c, m) ==
    /\ conn[i][c].pc = "recv"
    /\ conn[i][c].wait \notin closed[i]
    /\ nrecv[i] < MaxMsgs
    /\ nrecv' = [nrecv EXCEPT ![i] = @ + 1]
    /\ LET r == data_received(peers[i], m)
           got == IF ParserRaises(m) THEN <<>>
                  ELSE <<Entry("recv", m, "", conn[i][c].wait)>>
       IN IF r.exc
          THEN LeaveLoop(i, c, r.p, got \o r.out)
          ELSE \E refused \in BOOLEAN :
                 IF refused /\ OtherReader(i, c, r.p.sock)
                 THEN LeaveLoop(i, c, r.p, got \o r.out)
                 ELSE /\ peers' = [peers EXCEPT ![i] = r.p]
                      /\ Effects(i, got \o r.out)
                      /\ conn' = [conn EXCEPT ![i][c].wait = r.p.sock]
    /\ UNCHANGED <<session, closed, fixed>>

\* recv returns no bytes (the remote end closed the socket) or raises
\* socket.error: the loop ends.
RecvClose(i, c) ==
    /\ conn[i][c].pc = "recv"
    /\ closed' = [closed EXCEPT ![i] = @ \cup {conn[i][c].wait}]
    /\ LeaveLoop(i, c, peers[i], <<>>)
    /\ UNCHANGED <<session, nrecv, fixed>>

Next ==
    \/ \E i \in Ifaces, rid \in NeighborIds : HelloReceived(i, rid)
    \/ \E i \in Ifaces : SessionThread(i)
    \/ \E i \in Ifaces, c \in ConnIds : Accept(i, c)
    \/ \E i \in Ifaces, c \in ConnIds : ConnHandleStart(i, c)
    \/ \E i \in Ifaces, c \in ConnIds, m \in RecvTypes : RecvData(i, c, m)
    \/ \E i \in Ifaces, c \in ConnIds : RecvClose(i, c)

Spec == Init /\ [][Next]_vars

(***************************************************************************)
(* Role decision on both ends of a link.  Two LSRs A and B, each running   *)
(* LDPManager with a router id of its own, see each other's Hello; each    *)
(* decides its role by the comparison of hello_received, from the two      *)
(* router ids alone.                                                       *)
(***************************************************************************)
Other(x) == CHOOSE y \in LSRs : y # x

InitRole ==
    /\ CompsIdle
    /\ peers = [i \in Ifaces |-> NoPeer]
    /\ session = [i \in Ifaces |-> [st |-> "none", is_active |-> FALSE]]
    /\ conn = [i \in Ifaces |-> [c \in ConnIds |-> NoConn]]
    /\ closed = [i \in Ifaces |-> {}]
    /\ nrecv = [i \in Ifaces |-> 0]
    /\ out = [i \in Ifaces |-> <<>>]
    /\ trail = [i \in Ifaces |-> <<>>]
    /\ rcvd = [i \in Ifaces |-> {}]
    /\ sent = [i \in Ifaces |-> {}]
    /\ heard = {}
    /\ initalIsInitial = TRUE
    /\ lsr \in [LSRs -> [router_id : RouterIds, role : {"undecided"}]]
    /\ ntf = NoNtf
    /\ disc = NoDisc
    /\ chan = NoChan
    /\ act = NoAct
    /\ rbuf = NoBuf
    /\ codec = NoCodec
    /\ rtconf = NoConf

\* LDPManager.hello_received at LSR x for the first Hello of the other LSR:
\* the Peer is registered and the session thread spawned with is_active.
RoleHello(x) ==
    /\ lsr[x].role = "undecided"
    /\ lsr' = [lsr EXCEPT ![x].role =
                  IF IsActive(lsr[x].router_id, lsr[Other(x)].router_id)
                  THEN "active" ELSE "passive"]
    /\ UNCHANGED <<peers, session, conn, closed, nrecv, history, heard, initalIsInitial,
                   ntf, disc, chan, act, units>>

NextRole == \E x \in LSRs : RoleHello(x)

SpecRole == InitRole /\ [][NextRole]_vars

\* The registry and the session variables as LDPManager.__init__ leaves them.
SessionIdle ==
    /\ peers = [i \in Ifaces |-> NoPeer]
    /\ session = [i \in Ifaces |-> [st |-> "none", is_active |-> FALSE]]
    /\ conn = [i \in Ifaces |-> [c \in ConnIds |-> NoConn]]
    /\ closed = [i \in Ifaces |-> {}]
    /\ nrecv = [i \in Ifaces |-> 0]
    /\ out = [i \in Ifaces |-> <<>>]
    /\ trail = [i \in Ifaces |-> <<>>]
    /\ rcvd = [i \in Ifaces |-> {}]
    /\ sent = [i \in Ifaces |-> {}]
    /\ heard = {}

sessionVars == <<peers, session, conn, closed, nrecv, out, trail, rcvd, sent, heard,
                 initalIsInitial>>

(***************************************************************************)
(* One session under every outcome of the decoder.  The except clause of   *)
(* data_received is written for ldp.LdpExc; the codec of this revision     *)
(* raises none, so in Spec the clause never runs.  Here the outcome of     *)
(* _data_received is an input: a decoded message, an LdpExc with or        *)
(* without SEND_ERROR, or another exception.  The session starts at a      *)
(* point a receive loop of the Peer can be at: bound and NonExistent, or,  *)
(* for the passive role with a further accepted connection, in a state of  *)
(* the passive map.                                                        *)
(***************************************************************************)
DecodeOutcomes == {"msg", "LdpExc", "LdpExcQuiet", "error"}

\* The states a Peer with a running receive loop can have.
LoopPoints(is_active) ==
    {[state |-> LDP_STATE_NON_EXISTENT, map |-> "empty", impl |-> "unset"]}
    \cup (IF is_active \/ ~initalIsInitial THEN {}
          ELSE {[state |-> st, map |-> "passive", impl |-> PASSIVE_STATE_MAP[st]] :
                   st \in {LDP_STATE_INITIAL, LDP_STATE_OPEN_REC,
                            LDP_STATE_OPERATIONAL}})

\* Peer.data_received when _data_received ends with the given outcome.
data_received_on(p, msg_type, outcome) ==
    CASE outcome = "msg" -> handle_msg(p, msg_type)
      [] outcome = "LdpExc" -> Result(p, send_notification(p.sock), TRUE)
      [] outcome = "LdpExcQuiet" -> Result(p, <<Entry("close", "", "", p.sock)>>, TRUE)
      [] OTHER -> Result(p, <<>>, TRUE)

\* The effects eff on a socket that is open or not: close closes it, a send
\* on a closed socket raises socket.error and ends the calling method.
OnSocket(open, eff) ==
    LET F[n \in 0..Len(eff)] ==
            IF n = 0 THEN [log |-> <<>>, open |-> open, ok |-> TRUE]
            ELSE LET f == F[n - 1]
                     e == eff[n]
                 IN IF ~f.ok THEN f
                    ELSE IF e.k = "send" /\ ~f.open THEN [f EXCEPT !.ok = FALSE]
                    ELSE IF e.k = "close"
                         THEN [f EXCEPT !.log = Append(@, e), !.open = FALSE]
                         ELSE [f EXCEPT !.log = Append(@, e)]
    IN F[Len(eff)]

InitNotify ==
    /\ CompsIdle
    /\ SessionIdle
    /\ initalIsInitial \in BOOLEAN
    /\ lsr = [x \in LSRs |-> [router_id |-> LocalRouterId, role |-> "undecided"]]
    /\ disc = NoDisc
    /\ chan = NoChan
    /\ act = NoAct
    /\ rbuf = NoBuf
    /\ codec = NoCodec
    /\ rtconf = NoConf
    /\ \E rid \in NeighborIds :
         \E pt \in LoopPoints(IsActive(LocalRouterId, rid)) :
            ntf = [pc |-> "recv",
                   is_active |-> IsActive(LocalRouterId, rid),
                   p |-> [NewPeer(rid) EXCEPT !.sock = 1, !.state = pt.state,
                                              !.map = pt.map, !.impl = pt.impl],
                   open |-> TRUE,
                   n |-> 0,
                   lost |-> 0,
                   log |-> <<>>]

\* Mutant of NotifyLeave: the loop is left past its finally clause, without
\* the call of connection_lost.
NotifyLeave_PastFinally(p, eff) ==
    LET t == conn_handle_tail(p, ntf.is_active)
        w == OnSocket(ntf.open, eff \o t.out)
    IN ntf' = [ntf EXCEPT !.pc = "done", !.p = t.p, !.open = w.open,
                          !.log = @ \o w.log]

\* The loop of the session ends with effects eff so far: the finally clause
\* calls connection_lost (lost counts the calls), and the rest of
\* conn_handle follows.
NotifyLeave(p, eff) ==
    LET t == conn_handle_tail(p, ntf.is_active)
        w == OnSocket(ntf.open, eff \o t.out)
    IN ntf' = [ntf EXCEPT !.pc = "done", !.p = t.p, !.open = w.open,
                          !.lost = @ + 1, !.log = @ \o w.log]

\* One iteration of _recv_loop: a PDU of type m arrives and _data_received
\* ends with outcome oc.  In send_notification the send itself can fail
\* (sent = FALSE): socket.error leaves send_notification before the close.
NotifyRecv(m, oc, wrote) ==
    /\ ntf.pc = "recv"
    /\ ntf.n < MaxMsgs
    /\ oc = "msg" => ~ParserRaises(m)
    /\ LET r == data_received_on(ntf.p, m, oc)
           got == IF oc = "msg" THEN <<Entry("recv", m, "", ntf.p.sock)>> ELSE <<>>
           q == [ntf EXCEPT !.n = @ + 1]
       IN IF oc = "LdpExc" /\ ~wrote
          THEN LET t == conn_handle_tail(ntf.p, ntf.is_active)
                   w == OnSocket(ntf.open, t.out)
               IN ntf' = [q EXCEPT !.pc = "done", !.p = t.p, !.open = w.open,
                                   !.lost = @ + 1, !.log = @ \o w.log]
          ELSE IF r.exc
               THEN LET t == conn_handle_tail(r.p, ntf.is_active)
                        w == OnSocket(ntf.open, got \o r.out \o t.out)
                    IN ntf' = [q EXCEPT !.pc = "done", !.p = t.p, !.open = w.open,
                                        !.lost = @ + 1, !.log = @ \o w.log]
               ELSE LET w == OnSocket(ntf.open, got \o r.out)
                    IN ntf' = [q EXCEPT !.p = r.p, !.open = w.open,
                                        !.log = @ \o w.log]
    /\ UNCHANGED <<sessionVars, lsr, disc, chan, act, units>>

\* recv returns no bytes or raises socket.error.
NotifyClosed ==
    /\ ntf.pc = "recv"
    /\ NotifyLeave(ntf.p, <<>>)
    /\ UNCHANGED <<sessionVars, lsr, disc, chan, act, units>>

NextNotify ==
    \/ \E m \in RecvTypes, oc \in DecodeOutcomes, wrote \in BOOLEAN :
          NotifyRecv(m, oc, wrote)
    \/ NotifyClosed

SpecNotify == InitNotify /\ [][NextNotify]_vars

(***************************************************************************)
(* Discovery.  DiscoverServer._recv_loop hands every datagram to a spawned *)
(* handler, LDPInterface._recv_handler, which sends EventHelloReceived to  *)
(* the manager; LDPManager.hello_received decodes the packet only when the *)
(* interface has no Peer yet.  A datagram is a Hello of some router id or  *)
(* bytes LDPMessage.parser raises on.                                      *)
(***************************************************************************)
\* Mutant of RegistryAfterBadHello: the Peer is registered before the packet
\* is decoded.
RegistryAfterBadHello_RegisterFirst(ps, i) ==
    [ps EXCEPT ![i] = NewPeer(<<0, 0, 0, 0>>)]

\* LDPManager.peers after hello_received raised in LDPMessage.parser: the
\* parser is called before Peer is built and stored.
RegistryAfterBadHello(ps, i) == ps

\* DiscoverServer._recv_loop after a handler raised: the handler runs in a
\* greenlet of its own, the loop goes on to the next recvfrom.
RecvLoopAfter(handler_raised) == "recv"

\* The event loop of the application after hello_received raised: the
\* failure is logged and the event dropped.
AppAfterHandlerError == "alive"

InitDisc ==
    /\ CompsIdle
    /\ SessionIdle
    /\ initalIsInitial = TRUE
    /\ lsr = [x \in LSRs |-> [router_id |-> LocalRouterId, role |-> "undecided"]]
    /\ ntf = NoNtf
    /\ act = NoAct
    /\ rbuf = NoBuf
    /\ codec = NoCodec
    /\ rtconf = NoConf
    /\ chan = NoChan
    /\ disc = [pc |-> "run",
               loop |-> [i \in Ifaces |-> "recv"],
               app |-> "alive",
               dropped |-> [i \in Ifaces |-> 0],
               ignored |-> [i \in Ifaces |-> 0]]

\* A Hello of router id rid arrives on interface i and is dispatched.
DiscHello(i, rid) ==
    /\ disc.loop[i] = "recv"
    /\ disc.app = "alive"
    /\ HelloReceived(i, rid)

\* An undecodable datagram arrives on interface i and is dispatched:
\* hello_received passes when the interface has a Peer, and raises in the
\* parser otherwise.
DiscGarbage(i) ==
    /\ disc.loop[i] = "recv"
    /\ disc.app = "alive"
    /\ IF peers[i].exists
       THEN /\ disc.ignored[i] < MaxDrops
            /\ disc' = [disc EXCEPT !.ignored[i] = @ + 1]
            /\ UNCHANGED peers
       ELSE /\ disc.dropped[i] < MaxDrops
            /\ peers' = RegistryAfterBadHello(peers, i)
            /\ disc' = [disc EXCEPT !.dropped[i] = @ + 1,
                                    !.loop[i] = RecvLoopAfter(TRUE),
                                    !.app = AppAfterHandlerError]
    /\ UNCHANGED <<session, conn, closed, nrecv, history, heard, initalIsInitial,
                   lsr, ntf, act, chan, units>>

NextDisc ==
    \/ \E i \in Ifaces, rid \in NeighborIds : DiscHello(i, rid)
    \/ \E i \in Ifaces : DiscGarbage(i)

SpecDisc == InitDisc /\ [][NextDisc]_vars

(***************************************************************************)
(* One DiscoverServer and the LDPInterface that owns it.  The callers of   *)
(* DiscoverServer.sendto are the thread of the HelloSendTimer and two      *)
(* other greenlets; socket.sendto is a point where the hub may switch to   *)
(* another greenlet.                                                       *)
(***************************************************************************)
TimerTask == "timer"
Callers == {TimerTask, "c1", "c2"}

\* Mutant of CanAcquire: the lock is taken without waiting for it.
CanAcquire_NoWait(lock) == TRUE

\* write_lock.acquire() of Semaphore(1): returns when the counter is positive.
CanAcquire(lock) == lock > 0

\* Timer._timer once the handler has returned: the thread ends, nothing
\* arms the timer again.
AfterTimeout == "done"

InitSend ==
    /\ CompsIdle
    /\ SessionIdle
    /\ initalIsInitial = TRUE
    /\ lsr = [x \in LSRs |-> [router_id |-> LocalRouterId, role |-> "undecided"]]
    /\ ntf = NoNtf
    /\ disc = NoDisc
    /\ act = NoAct
    /\ rbuf = NoBuf
    /\ codec = NoCodec
    /\ rtconf = NoConf
    /\ chan = [pc |-> "created",
               lock |-> 1,
               at |-> [t \in Callers |-> "idle"],
               calls |-> [t \in Callers |-> 0],
               wire |-> 0,
               recvd |-> 0,
               recvHeld |-> FALSE]

\* LDPInterface.start: the receive loop is spawned and the Hello timer armed.
InterfaceStart ==
    /\ chan.pc = "created"
    /\ chan' = [chan EXCEPT !.pc = "run", !.at[TimerTask] = "armed"]
    /\ UNCHANGED <<sessionVars, lsr, ntf, disc, act, units>>

\* Timer._timer: the interval has passed without a cancel, the handler
\* HelloSendTimer._timeout calls sendto.
TimerFires ==
    /\ chan.pc = "run"
    /\ chan.at[TimerTask] = "armed"
    /\ chan' = [chan EXCEPT !.at[TimerTask] = "acquire", !.calls[TimerTask] = @ + 1]
    /\ UNCHANGED <<sessionVars, lsr, ntf, disc, act, units>>

\* Another greenlet calls DiscoverServer.sendto.
CallSendto(t) ==
    /\ chan.pc = "run"
    /\ t # TimerTask
    /\ chan.at[t] = "idle"
    /\ chan.calls[t] < MaxSends
    /\ chan' = [chan EXCEPT !.at[t] = "acquire", !.calls[t] = @ + 1]
    /\ UNCHANGED <<sessionVars, lsr, ntf, disc, act, units>>

\* DiscoverServer.sendto, write_lock.acquire()
Acquire(t) ==
    /\ chan.pc = "run"
    /\ chan.at[t] = "acquire"
    /\ CanAcquire(chan.lock)
    /\ chan' = [chan EXCEPT !.at[t] = "inside", !.lock = @ - 1]
    /\ UNCHANGED <<sessionVars, lsr, ntf, disc, act, units>>

\* Mutant of LeaveSendto: the lock is released only when the send returned.
LeaveSendto_HeldOnError(t, ok) ==
    /\ chan.pc = "run"
    /\ chan.at[t] = "inside"
    /\ chan' = [chan EXCEPT !.at[t] = IF t = TimerTask THEN AfterTimeout ELSE "idle",
                            !.lock = IF ok THEN @ + 1 ELSE @,
                            !.wire = IF ok THEN @ + 1 ELSE @]
    /\ UNCHANGED <<sessionVars, lsr, ntf, disc, act, units>>

\* DiscoverServer.sendto, socket.sendto returning (ok) or raising, and the
\* release of the finally clause.
LeaveSendto(t, ok) ==
    /\ chan.pc = "run"
    /\ chan.at[t] = "inside"
    /\ chan' = [chan EXCEPT !.at[t] = IF t = TimerTask THEN AfterTimeout ELSE "idle",
                            !.lock = @ + 1,
                            !.wire = IF ok THEN @ + 1 ELSE @]
    /\ UNCHANGED <<sessionVars, lsr, ntf, disc, act, units>>

\* DiscoverServer._recv_loop: recvfrom returns and the handler is spawned.
\* recvHeld only records that this happened while the lock was held.
ChanRecv ==
    /\ chan.pc = "run"
    /\ chan.recvd < MaxDgrams
    /\ chan' = [chan EXCEPT !.recvd = @ + 1,
                            !.recvHeld = @ \/ \E t \in Callers : chan.at[t] = "inside"]
    /\ UNCHANGED <<sessionVars, lsr, ntf, disc, act, units>>

NextSend ==
    \/ InterfaceStart
    \/ TimerFires
    \/ \E t \in Callers : CallSendto(t)
    \/ \E t \in Callers : Acquire(t)
    \/ \E t \in Callers, ok \in BOOLEAN : LeaveSendto(t, ok)
    \/ ChanRecv

SpecSend == InitSend /\ [][NextSend]_vars

\* The scheduling of the hub: socket.sendto returns or raises in the end,
\* and the semaphore wakes its waiters in the order they came, so a task
\* that waits for the lock is not passed over for ever.
SpecSendFair ==
    /\ SpecSend
    /\ \A t \in Callers : SF_vars(Acquire(t))
    /\ \A t \in Callers : WF_vars(\E ok \in BOOLEAN : LeaveSendto(t, ok))

(***************************************************************************)
(* Lifecycle.  api.core.start tests CORE_MANAGER.started and spawns        *)
(* CORE_MANAGER.start; Activity.start sets _started and runs _run, which   *)
(* for the manager builds the CoreService and spawns it as a child         *)
(* activity.  The CoreService owns the Hello timer, the server threads,    *)
(* the protocol activities and the sockets; Activity.stop is taken step by *)
(* step, so that the hub may run any other greenlet between two steps.     *)
(***************************************************************************)
\* Mutant of StopOrder: the sockets are closed first.
StopOrder_SocketsFirst == <<"sockets", "timers", "activities", "threads">>

\* Activity.stop: _stop_timers, _stop_child_activities, _stop_child_threads,
\* _close_asso_sockets, in this order.
StopOrder == <<"timers", "activities", "threads", "sockets">>

\* LoopingCall.stop: the scheduled call is cancelled, the callback runs no more.
TimerAfterStop == "stopped"

\* The parts of an Activity that has not run yet.
NoParts == [timer |-> "none", children |-> "none", threads |-> "none", sockets |-> "none"]

InitAct ==
    /\ CompsIdle
    /\ SessionIdle
    /\ initalIsInitial = TRUE
    /\ lsr = [x \in LSRs |-> [router_id |-> LocalRouterId, role |-> "undecided"]]
    /\ ntf = NoNtf
    /\ disc = NoDisc
    /\ rbuf = NoBuf
    /\ codec = NoCodec
    /\ rtconf = NoConf
    /\ chan = NoChan
    /\ act = [pc |-> "run",
              started |-> FALSE,
              pending |-> 0,
              results |-> <<>>,
              services |-> 0,
              rejected |-> 0,
              stops |-> 0,
              core |-> "none",
              part |-> NoParts,
              stopAt |-> 0,
              fires |-> 0]

\* api.core.start: raises when the manager is started, else spawns
\* CORE_MANAGER.start and returns True.
ApiStart ==
    /\ Len(act.results) < MaxCalls
    /\ IF act.started
       THEN act' = [act EXCEPT !.results = Append(@, [res |-> "RuntimeConfigError",
                                                      epoch |-> act.stops])]
       ELSE act' = [act EXCEPT !.results = Append(@, [res |-> "True",
                                                      epoch |-> act.stops]),
                               !.pending = @ + 1]
    /\ UNCHANGED <<sessionVars, lsr, ntf, disc, chan, units>>

\* A spawned CORE_MANAGER.start runs: Activity.start raises when the manager
\* is started; else it sets _started and _CoreManager._run builds the
\* CoreService and spawns it, then waits for it.
ManagerStart ==
    /\ act.pending > 0
    /\ IF act.started
       THEN act' = [act EXCEPT !.pending = @ - 1, !.rejected = @ + 1]
       ELSE act' = [act EXCEPT !.pending = @ - 1,
                               !.started = TRUE,
                               !.services = @ + 1,
                               !.core = "spawned",
                               !.part = NoParts]
    /\ UNCHANGED <<sessionVars, lsr, ntf, disc, chan, units>>

\* CoreService._run: the discovery and session sockets are opened, their
\* server threads spawned and the Hello timer started.
CoreRun ==
    /\ act.core = "spawned"
    /\ act' = [act EXCEPT !.core = "running",
                          !.part = [timer |-> "running", children |-> "none",
                                    threads |-> "running", sockets |-> "open"]]
    /\ UNCHANGED <<sessionVars, lsr, ntf, disc, chan, units>>

\* CoreService.start_protocol: a protocol activity is spawned for a connection.
StartProtocol ==
    /\ act.core = "running"
    /\ act.part.children = "none"
    /\ act' = [act EXCEPT !.part.children = "running"]
    /\ UNCHANGED <<sessionVars, lsr, ntf, disc, chan, units>>

\* The Hello timer calls CoreService.send_hello.
TimerCallback ==
    /\ act.part.timer = "running"
    /\ act.fires < MaxFires
    /\ act' = [act EXCEPT !.fires = @ + 1]
    /\ UNCHANGED <<sessionVars, lsr, ntf, disc, chan, units>>

\* Activity.start of the CoreService: _run has ended, stop is called.
StopBegins ==
    /\ act.core = "running"
    /\ act' = [act EXCEPT !.core = "stopping", !.stopAt = 1]
    /\ UNCHANGED <<sessionVars, lsr, ntf, disc, chan, units>>

\* One of the four calls of Activity.stop; after the last one the activity
\* is set up for another start.
StopStep ==
    /\ act.core = "stopping"
    /\ act.stopAt \in 1..Len(StopOrder)
    /\ LET what == StopOrder[act.stopAt]
           last == act.stopAt = Len(StopOrder)
           p == act.part
           q == CASE what = "timers" ->
                       [p EXCEPT !.timer = IF @ = "running" THEN TimerAfterStop ELSE @]
                  [] what = "activities" ->
                       [p EXCEPT !.children = IF @ = "running" THEN "stopped" ELSE @]
                  [] what = "threads" ->
                       [p EXCEPT !.threads = IF @ = "running" THEN "killed" ELSE @]
                  [] what = "sockets" ->
                       [p EXCEPT !.sockets = IF @ = "open" THEN "closed" ELSE @]
       IN act' = [act EXCEPT !.part = q,
                             !.stopAt = IF last THEN 0 ELSE @ + 1,
                             !.core = IF last THEN "stopped" ELSE @]
    /\ UNCHANGED <<sessionVars, lsr, ntf, disc, chan, units>>

\* _CoreManager._run returns from core_activity.wait(), Activity.start of the
\* manager calls stop: _started is False again.
ManagerStop ==
    /\ act.core = "stopped"
    /\ act.started
    /\ act' = [act EXCEPT !.started = FALSE, !.stops = @ + 1, !.core = "none"]
    /\ UNCHANGED <<sessionVars, lsr, ntf, disc, chan, units>>

NextAct ==
    \/ ApiStart
    \/ ManagerStart
    \/ CoreRun
    \/ StartProtocol
    \/ TimerCallback
    \/ StopBegins
    \/ StopStep
    \/ ManagerStop

SpecAct == InitAct /\ [][NextAct]_vars

(***************************************************************************)
(* The codec of ryu/lib/packet/ldp.py on octet strings.  An octet string   *)
(* is a sequence of numbers 0..255.  A function that may raise returns a   *)
(* record with ok = FALSE and the name of the exception.  An object is the *)
(* record of its public attributes, which is what str() of the unit test   *)
(* compares; cls is its class.                                             *)
(***************************************************************************)
Raise(e) == [ok |-> FALSE, exc |-> e]

\* struct.pack of '!B', '!H' and '!I' / '!L'
U8(n) == <<n % 256>>
U16(n) == <<(n \div 256) % 256, n % 256>>
U32(n) == <<(n \div 16777216) % 256, (n \div 65536) % 256, (n \div 256) % 256, n % 256>>

\* struct.unpack of '!H' and '!I' at octet i (from 1) of b
Rd16(b, i) == b[i] * 256 + b[i + 1]
Rd32(b, i) == ((b[i] * 256 + b[i + 1]) * 256 + b[i + 2]) * 256 + b[i + 3]

\* Python slices b[n:], b[:n] and b[m:n] for m, n >= 0
Drop(b, n) == SubSeq(b, n + 1, Len(b))
Take(b, n) == SubSeq(b, 1, IF n < Len(b) THEN n ELSE Len(b))
Slice(b, m, n) == SubSeq(b, m + 1, IF n < Len(b) THEN n ELSE Len(b))

\* x & y and x >> n of Python
RECURSIVE BitAnd(_, _)
BitAnd(x, y) ==
    IF x = 0 \/ y = 0 THEN 0
    ELSE (x % 2) * (y % 2) + 2 * BitAnd(x \div 2, y \div 2)

Shr(x, n) == x \div (2 ^ n)

\* The message type codes on the wire (LDP_MSG_NOTIFICATION, LDP_MSG_HELLO,
\* LDP_MSG_INIT, LDP_MSG_KEEPALIVE, LDP_MSG_ADDR, LDP_MSG_LABEL_MAPPING,
\* LDP_MSG_LABEL_REQUEST of ryu/lib/packet/ldp.py).
CODE_NOTIFICATION == 1
CODE_HELLO == 256
CODE_INIT == 512
CODE_KEEPALIVE == 513
CODE_ADDR == 768
CODE_LABEL_MAPPING == 1024
CODE_LABEL_REQUEST == 1025
LDP_TLV_COMMON_HELLO_PARAM == 1024
LDP_TLV_IPV4_TRANSPORT_ADDRESS == 1025
LDP_TLV_COMMON_SESSION_PARAMETERS == 1280
LDP_TLV_ADDRESS_LIST == 257
LDP_TLV_FEC == 256
LDP_TLV_GENERIC_LABEL == 512
LDP_TLV_SIZE == 4
LDP_FEC_PREFIX == 2
LDP_FEC_HOST_ADDRESS == 3
None == 0 - 1           \* the value of an attribute nothing has set yet

\* LDPMessage._TYPES without LDPNotification, the classes that define
\* __init__; LDPNotification is registered too but inherits
\* LDPMessage.__init__, which needs type_.
MSG_TYPES_WITH_INIT ==
    {CODE_HELLO, CODE_INIT, CODE_KEEPALIVE, CODE_ADDR, CODE_LABEL_MAPPING}

\* LDPMessage._tlv_parsers
TLV_TYPES ==
    {LDP_TLV_ADDRESS_LIST, LDP_TLV_FEC, LDP_TLV_GENERIC_LABEL, LDP_TLV_COMMON_HELLO_PARAM,
     LDP_TLV_IPV4_TRANSPORT_ADDRESS, LDP_TLV_COMMON_SESSION_PARAMETERS}

\* The constructors called with keyword arguments (buf is None).
CommonHelloParameter(hold_time, t_bit, r_bit) ==
    [cls |-> LDP_TLV_COMMON_HELLO_PARAM, len |-> None, hold_time |-> hold_time,
     t_bit |-> t_bit * (2 ^ 15), r_bit |-> r_bit * (2 ^ 14),
     reserved |-> t_bit * (2 ^ 15) + r_bit * (2 ^ 14)]

IPv4TransportAddress(addr) ==
    [cls |-> LDP_TLV_IPV4_TRANSPORT_ADDRESS, len |-> None, addr |-> addr]

CommonSessionParameters(proto_ver, keepalive_time, a_bit, d_bit, pvlim, max_pdu_len, receiver_lsr_id, receiver_label_space_id) ==
    [cls |-> LDP_TLV_COMMON_SESSION_PARAMETERS, len |-> None, proto_ver |-> proto_ver,
     keepalive_time |-> keepalive_time, a_bit |-> a_bit * (2 ^ 7), d_bit |-> d_bit * (2 ^ 6),
     reserved |-> a_bit * (2 ^ 7) + d_bit * (2 ^ 6), pvlim |-> pvlim,
     max_pdu_len |-> max_pdu_len, receiver_lsr_id |-> receiver_lsr_id,
     receiver_label_space_id |-> receiver_label_space_id]

AddressList(address_family, addresses) ==
    [cls |-> LDP_TLV_ADDRESS_LIST, len |-> None, address_family |-> address_family,
     address_list |-> addresses]

GenericLabel(label) == [cls |-> LDP_TLV_GENERIC_LABEL, len |-> None, label |-> label]

PrefixFecElement(address_type, element_len, prefix) ==
    [fec_type |-> LDP_FEC_PREFIX, address_type |-> address_type,
     element_len |-> element_len, prefix |-> prefix]

Fec(fec_elements) == [cls |-> LDP_TLV_FEC, len |-> None, fec_elements |-> fec_elements]

\* LDPMessage.__init__ through the __init__ of a message class: version and
\* label_space_id are not handed on, the header gets their defaults.
LDPMessage(type_, length, msg_len, router_id, msg_id, tlvs) ==
    [type |-> type_,
     header |-> [version |-> 1, length |-> length, router_id |-> router_id,
                 label_space_id |-> 0],
     msg_len |-> msg_len, msg_id |-> msg_id, tlvs |-> tlvs]

\* The concatenation of the octet strings of a sequence.
RECURSIVE Concat(_)
Concat(ss) == IF ss = <<>> THEN <<>> ELSE Head(ss) \o Concat(Tail(ss))

\* PrefixFecElement.serialize: the prefix is written as four octets.
PrefixFecElement_serialize(e) ==
    U8(e.fec_type) \o U16(e.address_type) \o U8(e.element_len) \o e.prefix

\* The value octets the serialize of a TLV class builds before it sets len.
TlvValue(t) ==
    CASE t.cls = LDP_TLV_COMMON_HELLO_PARAM -> U16(t.hold_time) \o U16(t.reserved)
      [] t.cls = LDP_TLV_IPV4_TRANSPORT_ADDRESS -> t.addr
      [] t.cls = LDP_TLV_COMMON_SESSION_PARAMETERS ->
             U16(t.proto_ver) \o U16(t.keepalive_time) \o U8(t.reserved) \o U8(t.pvlim)
                 \o U16(t.max_pdu_len) \o t.receiver_lsr_id \o U16(t.receiver_label_space_id)
      [] t.cls = LDP_TLV_ADDRESS_LIST -> U16(t.address_family) \o Concat(t.address_list)
      [] t.cls = LDP_TLV_GENERIC_LABEL -> U32(t.label)
      [] t.cls = LDP_TLV_FEC ->
             Concat([k \in 1..Len(t.fec_elements) |->
                        PrefixFecElement_serialize(t.fec_elements[k])])

\* Mutant of TlvLength: the length counts the type and length octets too.
TlvLength_WithHeader(value) == Len(value) + LDP_TLV_SIZE

\* self.len = len(tlv) in the serialize of every TLV class
TlvLength(value) == Len(value)

\* serialize of a TLV class: the octets, and the object with len set.
Tlv_serialize(t) ==
    LET v == TlvValue(t)
        n == TlvLength(v)
    IN [bin |-> U16(t.cls) \o U16(n) \o v, obj |-> [t EXCEPT !.len = n]]

\* LDPHeader.serialize, after LDPMessage.serialize has set length.
LDPHeader_serialize(h) ==
    LET g == [h EXCEPT !.length = @ + 6]
    IN [bin |-> U16(g.version) \o U16(g.length) \o g.router_id \o U16(g.label_space_id),
        obj |-> g]

\* Mutant of serialize: header.length is set only while it is None, so the
\* 6 that LDPHeader.serialize adds is added to what an earlier call left.
serialize_LengthKept(m) ==
    LET ts == [k \in 1..Len(m.tlvs) |-> Tlv_serialize(m.tlvs[k])]
        tlv_bin == Concat([k \in 1..Len(ts) |-> ts[k].bin])
        msg_len == 4 + Len(tlv_bin)
        msg_bin == U16(m.type) \o U16(msg_len) \o U32(m.msg_id) \o tlv_bin
        h == LDPHeader_serialize(IF m.header.length = None
                                 THEN [m.header EXCEPT !.length = Len(msg_bin)]
                                 ELSE m.header)
    IN [bin |-> h.bin \o msg_bin,
        obj |-> [m EXCEPT !.msg_len = msg_len, !.header = h.obj,
                          !.tlvs = [k \in 1..Len(ts) |-> ts[k].obj]]]

\* LDPMessage.serialize with include_header: the octets and the message as
\* serialize leaves it.
serialize(m) ==
    LET ts == [k \in 1..Len(m.tlvs) |-> Tlv_serialize(m.tlvs[k])]
        tlv_bin == Concat([k \in 1..Len(ts) |-> ts[k].bin])
        msg_len == 4 + Len(tlv_bin)
        msg_bin == U16(m.type) \o U16(msg_len) \o U32(m.msg_id) \o tlv_bin
        h == LDPHeader_serialize([m.header EXCEPT !.length = Len(msg_bin)])
    IN [bin |-> h.bin \o msg_bin,
        obj |-> [m EXCEPT !.msg_len = msg_len, !.header = h.obj,
                          !.tlvs = [k \in 1..Len(ts) |-> ts[k].obj]]]

\* PrefixFecElement.__init__ with buf: everything after the type octet is
\* the element, the prefix is what follows address family and length.
PrefixFecElement_parse(buf) ==
    LET info == Tail(buf)
        prefix == Drop(info, 3)
    IN IF Len(info) < 3 THEN Raise("struct.error")
       ELSE IF Len(prefix) > 4 THEN Raise("AssertionError")
       ELSE [ok |-> TRUE,
             obj |-> [fec_type |-> buf[1], address_type |-> Rd16(info, 1),
                      element_len |-> info[3],
                      prefix |-> prefix \o [k \in 1..(4 - Len(prefix)) |-> 0]],
             len |-> Len(info)]

\* The loop of Fec.__init__ over the value of the TLV.
RECURSIVE FecElements(_)
FecElements(rest) ==
    IF rest = <<>> THEN [ok |-> TRUE, objs |-> <<>>]
    ELSE IF rest[1] # LDP_FEC_PREFIX THEN Raise("KeyError")
    ELSE LET e == PrefixFecElement_parse(rest)
         IN IF ~e.ok THEN e
            ELSE LET more == FecElements(Drop(rest, 1 + e.len))
                 IN IF ~more.ok THEN more
                    ELSE [ok |-> TRUE, objs |-> <<e.obj>> \o more.objs]

\* The four-octet addresses of AddressList.__init__; a shorter last piece
\* makes addrconv raise.
RECURSIVE Addresses(_)
Addresses(bin) ==
    IF bin = <<>> THEN [ok |-> TRUE, objs |-> <<>>]
    ELSE IF Len(bin) < 4 THEN Raise("struct.error")
    ELSE LET more == Addresses(Drop(bin, 4))
         IN IF ~more.ok THEN more
            ELSE [ok |-> TRUE, objs |-> <<Take(bin, 4)>> \o more.objs]

\* CommonHelloParameter._T_BIT_MASK and _R_BIT_MASK
T_BIT_MASK == 128
R_BIT_MASK == 64

\* __init__ of the TLV class of type cls for the value octets info, where n
\* is the declared length.
TlvParse(cls, n, info) ==
    CASE cls = LDP_TLV_COMMON_HELLO_PARAM ->
             IF Len(info) # 4 THEN Raise("struct.error")
             ELSE LET reserved == Rd16(info, 3)
                  IN [ok |-> TRUE,
                      obj |-> [cls |-> cls, len |-> n, hold_time |-> Rd16(info, 1),
                               t_bit |-> Shr(BitAnd(reserved, T_BIT_MASK), 15),
                               r_bit |-> Shr(BitAnd(reserved, R_BIT_MASK), 14),
                               reserved |-> reserved
                                   - BitAnd(reserved, T_BIT_MASK + R_BIT_MASK)]]
      [] cls = LDP_TLV_IPV4_TRANSPORT_ADDRESS ->
             IF Len(info) # 4 THEN Raise("struct.error")
             ELSE [ok |-> TRUE, obj |-> [cls |-> cls, len |-> n, addr |-> info]]
      [] cls = LDP_TLV_COMMON_SESSION_PARAMETERS ->
             IF Len(info) # 14 THEN Raise("struct.error")
             ELSE LET reserved == info[5]
                      a_bit == Shr(BitAnd(reserved, 128), 7)
                      d_bit == Shr(BitAnd(reserved, 64), 6)
                  IN [ok |-> TRUE,
                      obj |-> [cls |-> cls, len |-> n, proto_ver |-> Rd16(info, 1),
                               keepalive_time |-> Rd16(info, 3),
                               a_bit |-> a_bit, d_bit |-> d_bit,
                               reserved |-> reserved - (a_bit + d_bit),
                               pvlim |-> info[6], max_pdu_len |-> Rd16(info, 7),
                               receiver_lsr_id |-> SubSeq(info, 9, 12),
                               receiver_label_space_id |-> Rd16(info, 13)]]
      [] cls = LDP_TLV_ADDRESS_LIST ->
             IF Len(info) < 2 THEN Raise("struct.error")
             ELSE LET a == Addresses(Drop(info, 2))
                  IN IF ~a.ok THEN a
                     ELSE [ok |-> TRUE,
                           obj |-> [cls |-> cls, len |-> n,
                                    address_family |-> Rd16(info, 1),
                                    address_list |-> a.objs]]
      [] cls = LDP_TLV_GENERIC_LABEL ->
             IF Len(info) # 4 THEN Raise("struct.error")
             ELSE [ok |-> TRUE, obj |-> [cls |-> cls, len |-> n, label |-> Rd32(info, 1)]]
      [] cls = LDP_TLV_FEC ->
             LET e == FecElements(info)
             IN IF ~e.ok THEN e
                ELSE [ok |-> TRUE, obj |-> [cls |-> cls, len |-> n, fec_elements |-> e.objs]]

\* One turn of the loop of LDPMessage.parser: get_type, get_tlv_type,
\* LDPBasicTLV.__init__ and the __init__ of the class, for tlv_bin not empty.
Tlv_parse(tlv_bin) ==
    IF Len(tlv_bin) < 2 THEN Raise("struct.error")
    ELSE IF Rd16(tlv_bin, 1) \notin TLV_TYPES THEN Raise("KeyError")
    ELSE IF Len(tlv_bin) < LDP_TLV_SIZE THEN Raise("struct.error")
    ELSE LET n == Rd16(tlv_bin, 3)
         IN IF Len(tlv_bin) < n + LDP_TLV_SIZE THEN Raise("AssertionError")
            ELSE TlvParse(Rd16(tlv_bin, 1), n, Slice(tlv_bin, LDP_TLV_SIZE, LDP_TLV_SIZE + n))

\* The loop of LDPMessage.parser over tlv_bin.
RECURSIVE Tlvs(_)
Tlvs(tlv_bin) ==
    IF tlv_bin = <<>> THEN [ok |-> TRUE, objs |-> <<>>]
    ELSE LET t == Tlv_parse(tlv_bin)
         IN IF ~t.ok THEN t
            ELSE LET more == Tlvs(Drop(tlv_bin, LDP_TLV_SIZE + t.obj.len))
                 IN IF ~more.ok THEN more
                    ELSE [ok |-> TRUE, objs |-> <<t.obj>> \o more.objs]

\* LDPMessage.parser with include_header: the message and the octets left.
parser(buf) ==
    IF Len(buf) < 10 THEN Raise("TooSmallException")
    ELSE LET length == Rd16(buf, 3)
             router_id == SubSeq(buf, 5, 8)
             rest == Drop(buf, 10)
         IN IF Len(rest) < 8 THEN Raise("struct.error")
            ELSE LET type_ == Rd16(rest, 1)
                     msg_len == Rd16(rest, 3)
                     msg_id == Rd32(rest, 5)
                     eotlv == msg_len + 4
                     tlvs == Tlvs(Slice(rest, 8, eotlv))
                 IN IF Len(rest) < msg_len THEN Raise("TooSmallException")
                    ELSE IF ~tlvs.ok THEN tlvs
                    ELSE IF type_ \notin MSG_TYPES_WITH_INIT THEN Raise("TypeError")
                    ELSE [ok |-> TRUE,
                          obj |-> LDPMessage(type_, length, msg_len, router_id, msg_id,
                                             tlvs.objs),
                          rest |-> Drop(rest, eotlv)]

(***************************************************************************)
(* The receive buffer of one Peer.  The remote end writes the PDUs of a    *)
(* stream, socket.recv(LDP_MIN_MSG_LEN) returns some of the next octets,   *)
(* and Peer._data_received appends them and handles every PDU the buffer   *)
(* holds completely.                                                       *)
(***************************************************************************)
LDP_MIN_MSG_LEN == 10

\* The messages of the streams: a KeepAlive without TLV and an Init with the
\* common session parameters.
StreamMsgs ==
    {LDPMessage(CODE_KEEPALIVE, None, None, LocalRouterId, 0, <<>>),
     LDPMessage(CODE_INIT, None, None, LocalRouterId, 0,
                <<CommonSessionParameters(1, 30, 0, 0, 0, 0, LocalRouterId, 0)>>)}

RECURSIVE StreamsOf(_)
StreamsOf(n) ==
    IF n = 0 THEN {<<>>}
    ELSE {serialize(m).bin \o t : m \in StreamMsgs, t \in StreamsOf(n - 1)}

Streams == UNION {StreamsOf(n) : n \in 1..MaxPdus}

\* Mutant of PduBuffered: the four octets before the PDU length are not
\* taken off.
PduBuffered_Whole(buff) == Len(buff) >= Rd16(buff, 3)

\* Peer._data_received, for a buffer of at least LDP_MIN_MSG_LEN octets:
\* buf_len = len(self._recv_buff) - 4 is not smaller than pdu_len.
PduBuffered(buff) == Len(buff) - 4 >= Rd16(buff, 3)

\* The loop of Peer._data_received on the buffer: the buffer it leaves, the
\* types of the messages it handed to _handle_msg, and whether it raised.
RECURSIVE DataLoop(_, _)
DataLoop(buff, handled) ==
    IF Len(buff) < LDP_MIN_MSG_LEN THEN [buff |-> buff, handled |-> handled, exc |-> FALSE]
    ELSE IF ~PduBuffered(buff) THEN [buff |-> buff, handled |-> handled, exc |-> FALSE]
    ELSE LET r == parser(buff)
         IN IF ~r.ok THEN [buff |-> buff, handled |-> handled, exc |-> TRUE]
            ELSE DataLoop(r.rest, Append(handled, r.obj.type))

InitBuf ==
    /\ CompsIdle
    /\ SessionIdle
    /\ initalIsInitial = TRUE
    /\ lsr = [x \in LSRs |-> [router_id |-> LocalRouterId, role |-> "undecided"]]
    /\ ntf = NoNtf
    /\ disc = NoDisc
    /\ chan = NoChan
    /\ act = NoAct
    /\ codec = NoCodec
    /\ rtconf = NoConf
    /\ \E st \in Streams :
         rbuf = [pc |-> "recv", stream |-> st, buff |-> <<>>, handled |-> <<>>]

\* Peer._recv_loop: recv returns the next n octets and data_received runs.
BufRecv(n) ==
    /\ rbuf.pc = "recv"
    /\ n <= Len(rbuf.stream)
    /\ LET r == DataLoop(rbuf.buff \o Take(rbuf.stream, n), rbuf.handled)
       IN rbuf' = [rbuf EXCEPT !.pc = IF r.exc THEN "lost" ELSE "recv",
                               !.stream = Drop(rbuf.stream, n),
                               !.buff = r.buff,
                               !.handled = r.handled]
    /\ UNCHANGED <<sessionVars, lsr, ntf, disc, chan, act, codec, rtconf, comps>>

\* Peer._recv_loop: recv returns no octet, the remote end has closed.
BufClosed ==
    /\ rbuf.pc = "recv"
    /\ rbuf.stream = <<>>
    /\ rbuf' = [rbuf EXCEPT !.pc = "lost"]
    /\ UNCHANGED <<sessionVars, lsr, ntf, disc, chan, act, codec, rtconf, comps>>

NextBuf ==
    \/ \E n \in 1..LDP_MIN_MSG_LEN : BufRecv(n)
    \/ BufClosed

SpecBuf == InitBuf /\ [][NextBuf]_vars

(***************************************************************************)
(* The same receive buffer fed by a remote end that need not be an LDP     *)
(* speaker of this code: besides the streams above, a single PDU whose     *)
(* header declares a PDU length four octets short of the message it        *)
(* carries.  The whole stream is remembered next to what is left of it.    *)
(***************************************************************************)
Understated(bin) == [bin EXCEPT ![4] = @ - 4]

InitChunk ==
    /\ CompsIdle
    /\ SessionIdle
    /\ initalIsInitial = TRUE
    /\ lsr = [x \in LSRs |-> [router_id |-> LocalRouterId, role |-> "undecided"]]
    /\ ntf = NoNtf
    /\ disc = NoDisc
    /\ chan = NoChan
    /\ act = NoAct
    /\ codec = NoCodec
    /\ rtconf = NoConf
    /\ \E st \in Streams \cup {Understated(pdu) : pdu \in StreamsOf(1)} :
         rbuf = [pc |-> "recv", stream |-> st, buff |-> <<>>, handled |-> <<>>, whole |-> st]

SpecChunk == InitChunk /\ [][NextBuf]_vars

(***************************************************************************)
(* The codec on its own: a message is built from the classes, serialized,  *)
(* and the octets, all of them or a proper prefix, are given to            *)
(* LDPMessage.parser; what the parser returns is serialized again.         *)
(***************************************************************************)
\* The sequences of at most n TLVs of S, of different classes in the order of
\* their type codes.
RECURSIVE UpTo(_, _)
UpTo(S, n) ==
    IF n = 0 THEN {<<>>}
    ELSE LET shorter == UpTo(S, n - 1)
         IN shorter \cup
              UNION {{Append(q, x) : x \in {y \in S : \A k \in 1..(n - 1) : q[k].cls < y.cls}} :
                        q \in {r \in shorter : Len(r) = n - 1}}

\* FEC TLVs of up to MaxElems Prefix elements, of prefix length 8 or 33.
CodecFecs ==
    {Fec([k \in 1..n |-> PrefixFecElement(1, pl, <<10, 0, 0, 0>>)]) :
        n \in 0..MaxElems, pl \in {8, 33}}

CodecTlvs ==
    {CommonHelloParameter(15, t, r) : t \in {0, 1}, r \in {0, 1}}
        \cup {IPv4TransportAddress(LocalRouterId)}
        \cup {CommonSessionParameters(1, 30, a, d, 0, 0, LocalRouterId, 0) : a \in {0, 1}, d \in {0, 1}}
        \cup {AddressList(1, [k \in 1..n |-> LocalRouterId]) : n \in 0..MaxElems}
        \cup {GenericLabel(3)}
        \cup CodecFecs

CodecTypes ==
    {CODE_NOTIFICATION, CODE_HELLO, CODE_INIT, CODE_KEEPALIVE, CODE_ADDR, CODE_LABEL_MAPPING}

\* The messages a caller builds; st is what the caller left in the length
\* attributes, nothing or 7.
CodecMsgs ==
    {LDPMessage(ty, st, st, LocalRouterId, 0, [k \in 1..Len(ts) |-> [ts[k] EXCEPT !.len = st]]) :
        ty \in CodecTypes, st \in {None, 7}, ts \in UpTo(CodecTlvs, MaxTlvs)}

NoResult == Raise("none")

InitCodec ==
    /\ CompsIdle
    /\ SessionIdle
    /\ initalIsInitial = TRUE
    /\ lsr = [x \in LSRs |-> [router_id |-> LocalRouterId, role |-> "undecided"]]
    /\ ntf = NoNtf
    /\ disc = NoDisc
    /\ chan = NoChan
    /\ act = NoAct
    /\ rbuf = NoBuf
    /\ rtconf = NoConf
    /\ \E m \in CodecMsgs :
         codec = [pc |-> "built", msg |-> m, sent |-> m, bin |-> <<>>, res |-> NoResult,
                  again |-> <<>>, times |-> 0]

\* msg.serialize(): msg keeps the attributes the caller built the message
\* with, sent is the message as serialize leaves it.
CodecSerialize ==
    /\ codec.pc = "built"
    /\ LET r == serialize(codec.msg)
       IN codec' = [codec EXCEPT !.pc = "wire", !.sent = r.obj, !.bin = r.bin]
    /\ UNCHANGED <<sessionVars, lsr, ntf, disc, chan, act, rbuf, rtconf, comps>>

\* LDPMessage.parser(binmsg)
CodecParse ==
    /\ codec.pc = "wire"
    /\ codec' = [codec EXCEPT !.pc = "parsed", !.res = parser(codec.bin)]
    /\ UNCHANGED <<sessionVars, lsr, ntf, disc, chan, act, rbuf, rtconf, comps>>

\* LDPMessage.parser on the octets without the last k.
CodecParsePrefix(k) ==
    /\ codec.pc = "wire"
    /\ k \in 1..Len(codec.bin)
    /\ LET cut == Take(codec.bin, Len(codec.bin) - k)
       IN codec' = [codec EXCEPT !.pc = "cut", !.bin = cut, !.res = parser(cut)]
    /\ UNCHANGED <<sessionVars, lsr, ntf, disc, chan, act, rbuf, rtconf, comps>>

\* The octets of a PDU with one more TLV at the end of its message, of type
\* ty and value payload, as a peer that knows the type writes them.
WithTlv(bin, ty, payload) ==
    LET tlv == U16(ty) \o U16(Len(payload)) \o payload
    IN Take(bin, 2) \o U16(Rd16(bin, 3) + Len(tlv)) \o Slice(bin, 4, 12)
           \o U16(Rd16(bin, 13) + Len(tlv)) \o Drop(bin, 14) \o tlv

\* LDPMessage.parser on the octets of a message that carries a TLV of a type
\* no class is registered for (Next takes Hop Count, 0x0103, and the first
\* vendor-private type, 0x3E00).
CodecForeign(ty, payload) ==
    /\ codec.pc = "wire"
    /\ LET b == WithTlv(codec.bin, ty, payload)
       IN codec' = [codec EXCEPT !.pc = "foreign", !.bin = b, !.res = parser(b)]
    /\ UNCHANGED <<sessionVars, lsr, ntf, disc, chan, act, rbuf, rtconf, comps>>

\* serialize() of the message the parser returned.
CodecSerializeAgain ==
    /\ codec.pc = "parsed"
    /\ codec.res.ok
    /\ codec' = [codec EXCEPT !.pc = "again", !.again = serialize(codec.res.obj).bin]
    /\ UNCHANGED <<sessionVars, lsr, ntf, disc, chan, act, rbuf, rtconf, comps>>

\* serialize() of the message object that was serialized before, as
\* CoreService.send_hello does with the Hello it keeps in _hello_msg.
CodecSerializeSame ==
    /\ codec.pc \in {"wire", "same"}
    /\ codec.times < MaxRepeats
    /\ LET r == serialize(codec.sent)
       IN codec' = [codec EXCEPT !.pc = "same", !.sent = r.obj, !.again = r.bin,
                                 !.times = @ + 1]
    /\ UNCHANGED <<sessionVars, lsr, ntf, disc, chan, act, rbuf, rtconf, comps>>

NextCodec ==
    \/ CodecSerialize
    \/ CodecParse
    \/ \E k \in 1..Len(codec.bin) : CodecParsePrefix(k)
    \/ \E ty \in {259, 15872}, payload \in {<<>>, <<1, 2>>} : CodecForeign(ty, payload)
    \/ CodecSerializeAgain
    \/ CodecSerializeSame

SpecCodec == InitCodec /\ [][NextCodec]_vars

(***************************************************************************)
(* The configuration given to api core.start.  A keyword argument is a     *)
(* name with a value; a value is a record of its Python type and of what   *)
(* the validators look at: the number of an int, and for a str one of      *)
(* three texts (0 the empty string, 1 a dotted quad, 2 another text); a    *)
(* list holds no element (0) or the one str of that number.                *)
(***************************************************************************)
MaxStarts == 2

ROUTER_ID == "router_id"
ENABLE_INTS == "enable_ints"
HELLO_INTERVAL == "hello_interval"
HOLD_TIME == "hold_time"
KEEP_ALIVE == "keep_alive"
LDP_SERVER_PORT == "ldp_server_port"
TCP_CONN_TIMEOUT == "tcp_conn_timeout"

Absent == [ty |-> "absent", v |-> 0]     \* the keyword is not given
NoneV == [ty |-> "none", v |-> 0]
IntV(n) == [ty |-> "int", v |-> n]
StrV(k) == [ty |-> "str", v |-> k]
ListV(k) == [ty |-> "list", v |-> k]

\* CommonConf.REQUIRED_SETTINGS and CommonConf.OPTIONAL_SETTINGS
REQUIRED_SETTINGS == {ROUTER_ID, ENABLE_INTS}
OPTIONAL_SETTINGS == {HELLO_INTERVAL, HOLD_TIME, KEEP_ALIVE, LDP_SERVER_PORT}

\* The keywords a caller may give, and the values given for each
\* (label_range, a pair, is treated by start as tcp_conn_timeout is and is
\* left out).
Keywords == REQUIRED_SETTINGS \cup OPTIONAL_SETTINGS \cup {TCP_CONN_TIMEOUT}

Given(name) ==
    CASE name = ROUTER_ID -> {Absent, NoneV, StrV(0), StrV(1), StrV(2), IntV(1)}
      [] name = ENABLE_INTS -> {Absent, ListV(0), ListV(1), ListV(2), StrV(1)}
      [] name = HELLO_INTERVAL -> {Absent, IntV(5), IntV(0)}
      [] name = HOLD_TIME -> {Absent, NoneV, IntV(15), IntV(9), StrV(2)}
      [] name = KEEP_ALIVE -> {Absent, IntV(60), IntV(9)}
      [] name = LDP_SERVER_PORT -> {Absent, IntV(646), IntV(0), IntV(65536), StrV(2)}
      [] name = TCP_CONN_TIMEOUT -> {Absent, IntV(30)}

Kwargs ==
    {[n \in Keywords |->
         CASE n = ROUTER_ID -> a [] n = ENABLE_INTS -> b [] n = HELLO_INTERVAL -> c
           [] n = HOLD_TIME -> d [] n = KEEP_ALIVE -> e [] n = LDP_SERVER_PORT -> f
           [] n = TCP_CONN_TIMEOUT -> g] :
        a \in Given(ROUTER_ID), b \in Given(ENABLE_INTS), c \in Given(HELLO_INTERVAL),
        d \in Given(HOLD_TIME), e \in Given(KEEP_ALIVE), f \in Given(LDP_SERVER_PORT),
        g \in Given(TCP_CONN_TIMEOUT)}

\* kwargs.keys() and kwargs.get(name)
keys(kw) == {n \in Keywords : kw[n] # Absent}
get(kw, name) == IF kw[name] = Absent THEN NoneV ELSE kw[name]

\* The truth value of a Python object.
Truthy(x) == x.ty # "none" /\ x.v # 0

\* utils.validation.is_valid_ipv4: the text is a dotted quad.
is_valid_ipv4(x) == x.ty = "str" /\ x.v = 1

\* The validators registered with @validate; each gives the name of the
\* exception it raises, or "ok".
validate_router_id(x) ==
    IF ~Truthy(x) THEN "MissingRequiredConf"
    ELSE IF x.ty # "str" THEN "ConfigTypeError"
    ELSE IF ~is_valid_ipv4(x) THEN "ConfigValueError"
    ELSE "ok"

validate_enable_ints(x) ==
    IF ~Truthy(x) THEN "MissingRequiredConf"
    ELSE IF x.ty # "list" THEN "ConfigTypeError"
    ELSE IF ~is_valid_ipv4(StrV(x.v)) THEN "ConfigValueError"
    ELSE "ok"

validate_hold_time(x) ==
    IF x.ty = "none" \/ x.ty # "int" \/ x.v < 10 THEN "ConfigValueError" ELSE "ok"

validate_hello_interval(x) ==
    IF x.ty = "none" \/ x.ty # "int" \/ x.v < 1 THEN "ConfigValueError" ELSE "ok"

validate_keep_alive(x) ==
    IF x.ty = "none" \/ x.ty # "int" \/ x.v < 10 THEN "ConfigValueError" ELSE "ok"

validate_ldp_server_port(x) ==
    IF x.ty # "int" THEN "ConfigTypeError"
    ELSE IF x.v <= 0 \/ x.v > 65535 THEN "ConfigValueError"
    ELSE "ok"

validate_tcp_conn_timeout(x) ==
    IF x.ty # "int" THEN "ConfigTypeError"
    ELSE IF x.v < 10 THEN "ConfigValueError"
    ELSE "ok"

get_validator(name, x) ==
    CASE name = ROUTER_ID -> validate_router_id(x)
      [] name = ENABLE_INTS -> validate_enable_ints(x)
      [] name = HELLO_INTERVAL -> validate_hello_interval(x)
      [] name = HOLD_TIME -> validate_hold_time(x)
      [] name = KEEP_ALIVE -> validate_keep_alive(x)
      [] name = LDP_SERVER_PORT -> validate_ldp_server_port(x)
      [] name = TCP_CONN_TIMEOUT -> validate_tcp_conn_timeout(x)

\* BaseConf._validate_req_unknown_settings
validate_req_unknown_settings(kw) ==
    LET all_attrs == REQUIRED_SETTINGS \cup OPTIONAL_SETTINGS
    IN IF keys(kw) = {} THEN "MissingRequiredConf"
       ELSE IF keys(kw) \ all_attrs # {} THEN "RuntimeConfigError"
       ELSE IF REQUIRED_SETTINGS \ keys(kw) # {} THEN "MissingRequiredConf"
       ELSE "ok"

\* BaseConf._init_req_settings, the required settings taken in the order the
\* iteration over the set gives.
RECURSIVE init_req_settings(_, _)
init_req_settings(kw, order) ==
    IF order = <<>> THEN "ok"
    ELSE LET x == get(kw, Head(order))
             r == IF x = NoneV THEN "MissingRequiredConf"
                  ELSE get_validator(Head(order), x)
         IN IF r # "ok" THEN r ELSE init_req_settings(kw, Tail(order))

\* Mutant of compute_optional_conf: the value given is taken as it is.
compute_optional_conf_Unchecked(conf_name, kw) == "ok"

\* rtconf.base.compute_optional_conf: a value given is validated, None
\* stands for the default.
compute_optional_conf(conf_name, kw) ==
    IF get(kw, conf_name) # NoneV THEN get_validator(conf_name, get(kw, conf_name))
    ELSE "ok"

\* CommonConf._init_opt_settings: the settings in the order of the code
\* (tcp_conn_timeout is never given where this is reached).
RECURSIVE init_opt_settings(_, _)
init_opt_settings(kw, names) ==
    IF names = <<>> THEN "ok"
    ELSE LET r == compute_optional_conf(Head(names), kw)
         IN IF r # "ok" THEN r ELSE init_opt_settings(kw, Tail(names))

\* CommonConf(**kwargs): BaseConf.__init__
CommonConf(kw, order) ==
    LET a == validate_req_unknown_settings(kw)
        b == init_req_settings(kw, order)
        c == init_opt_settings(kw, <<HELLO_INTERVAL, HOLD_TIME, KEEP_ALIVE,
                                     LDP_SERVER_PORT, TCP_CONN_TIMEOUT>>)
    IN IF a # "ok" THEN a ELSE IF b # "ok" THEN b ELSE c

ReqOrders == {<<ROUTER_ID, ENABLE_INTS>>, <<ENABLE_INTS, ROUTER_ID>>}

\* A caller holds one set of keyword arguments and calls start with it.
InitConf ==
    /\ CompsIdle
    /\ SessionIdle
    /\ initalIsInitial = TRUE
    /\ lsr = [x \in LSRs |-> [router_id |-> LocalRouterId, role |-> "undecided"]]
    /\ ntf = NoNtf
    /\ disc = NoDisc
    /\ chan = NoChan
    /\ act = NoAct
    /\ rbuf = NoBuf
    /\ codec = NoCodec
    /\ \E kw \in Kwargs :
         rtconf = [pc |-> "run", kwargs |-> kw, calls |-> 0, raised |-> 0, exc |-> "none",
                   pending |-> 0, started |-> FALSE]

\* api core.start(**kwargs): raises when the manager is started, builds
\* CommonConf, and only then spawns CORE_MANAGER.start.
ConfStart(order) ==
    /\ rtconf.pc = "run"
    /\ rtconf.calls < MaxStarts
    /\ LET r == IF rtconf.started THEN "RuntimeConfigError"
                ELSE CommonConf(rtconf.kwargs, order)
       IN IF r # "ok"
          THEN rtconf' = [rtconf EXCEPT !.calls = @ + 1, !.raised = @ + 1, !.exc = r]
          ELSE rtconf' = [rtconf EXCEPT !.calls = @ + 1, !.exc = "none",
                                        !.pending = @ + 1]
    /\ UNCHANGED <<sessionVars, lsr, ntf, disc, chan, act, rbuf, codec, comps>>

\* The hub runs a spawned CORE_MANAGER.start: Activity.start sets _started,
\* or raises in the spawned greenlet when it is set.
ConfManagerStart ==
    /\ rtconf.pc = "run"
    /\ rtconf.pending > 0
    /\ rtconf' = [rtconf EXCEPT !.pending = @ - 1, !.started = TRUE]
    /\ UNCHANGED <<sessionVars, lsr, ntf, disc, chan, act, rbuf, codec, comps>>

NextConf ==
    \/ \E order \in ReqOrders : ConfStart(order)
    \/ ConfManagerStart

SpecConf == InitConf /\ [][NextConf]_vars

(***************************************************************************)
(* CommonConf.update on a configuration that start has built.              *)
(***************************************************************************)
MaxUpdates == 2

\* The settings of CommonConf(router_id='1.1.1.1', enable_ints=['1.1.1.1']):
\* the two required ones and the defaults of the optional ones.
BuiltSettings ==
    [n \in Keywords |->
        CASE n = ROUTER_ID -> StrV(1) [] n = ENABLE_INTS -> ListV(1)
          [] n = HELLO_INTERVAL -> IntV(5) [] n = HOLD_TIME -> IntV(15)
          [] n = KEEP_ALIVE -> IntV(60) [] n = LDP_SERVER_PORT -> IntV(646)
          [] n = TCP_CONN_TIMEOUT -> IntV(30)]

\* The keyword arguments update is called with.
Updates ==
    {[n \in Keywords |->
         CASE n = ROUTER_ID -> a [] n = ENABLE_INTS -> b [] n = HELLO_INTERVAL -> Absent
           [] n = HOLD_TIME -> d [] n = KEEP_ALIVE -> e [] n = LDP_SERVER_PORT -> f
           [] n = TCP_CONN_TIMEOUT -> g] :
        a \in {Absent, StrV(1), StrV(2)}, b \in {Absent, ListV(1)},
        d \in {Absent, NoneV, IntV(20), IntV(9)}, e \in {Absent, IntV(90)},
        f \in {Absent, IntV(0)}, g \in {Absent}}

\* The first loop of CommonConf.update: the names whose validator raises.
Refused(kw) == {n \in keys(kw) : get_validator(n, kw[n]) # "ok"}

\* Mutant of conf_changed: every update counts as a change.
conf_changed_Always(settings, kw) == TRUE

\* conf_changed of CommonConf.update: a value given differs from the setting.
conf_changed(settings, kw) == \E n \in keys(kw) : settings[n] # kw[n]

\* The second loop of CommonConf.update.
Overwritten(settings, kw) == [n \in Keywords |-> IF n \in keys(kw) THEN kw[n] ELSE settings[n]]

InitUpd ==
    /\ CompsIdle
    /\ SessionIdle
    /\ initalIsInitial = TRUE
    /\ lsr = [x \in LSRs |-> [router_id |-> LocalRouterId, role |-> "undecided"]]
    /\ ntf = NoNtf
    /\ disc = NoDisc
    /\ chan = NoChan
    /\ act = NoAct
    /\ rbuf = NoBuf
    /\ codec = NoCodec
    /\ rtconf = [pc |-> "conf", settings |-> BuiltSettings, given |-> BuiltSettings,
                 calls |-> 0, events |-> 0, exc |-> "none"]

\* CommonConf.update(**kw) raising exc: BaseConf.update refuses, or the
\* validator of the name bad does.
UpdateRaises(kw, bad) ==
    /\ rtconf.pc = "conf"
    /\ rtconf.calls < MaxUpdates
    /\ LET a == validate_req_unknown_settings(kw)
       IN /\ a # "ok" \/ bad \in Refused(kw)
          /\ rtconf' = [rtconf EXCEPT !.calls = @ + 1, !.given = kw,
                           !.exc = IF a # "ok" THEN a ELSE get_validator(bad, kw[bad])]
    /\ UNCHANGED <<sessionVars, lsr, ntf, disc, chan, act, rbuf, codec, comps>>

\* CommonConf.update(**kw) returning: when a value differs the settings
\* given are overwritten and the listeners notified of CONF_CHANGED_EVT.
Update(kw) ==
    /\ rtconf.pc = "conf"
    /\ rtconf.calls < MaxUpdates
    /\ validate_req_unknown_settings(kw) = "ok"
    /\ Refused(kw) = {}
    /\ IF conf_changed(rtconf.settings, kw)
       THEN rtconf' = [rtconf EXCEPT !.calls = @ + 1, !.given = kw, !.exc = "none",
                                     !.settings = Overwritten(@, kw), !.events = @ + 1]
       ELSE rtconf' = [rtconf EXCEPT !.calls = @ + 1, !.given = kw, !.exc = "none"]
    /\ UNCHANGED <<sessionVars, lsr, ntf, disc, chan, act, rbuf, codec, comps>>

NextUpd ==
    \/ \E kw \in Updates, bad \in Keywords : UpdateRaises(kw, bad)
    \/ \E kw \in Updates : Update(kw)

SpecUpd == InitUpd /\ [][NextUpd]_vars

(***************************************************************************)
(* LdpProcessor: the two destination queues, the wake-up event and the     *)
(* loop of _run.  RF_RTC_UC, which processor.py does not import, is read   *)
(* as the route family of the route-target destinations.  The circular     *)
(* list is a sequence; is_on_list is membership.  Other code runs while    *)
(* the loop is inside process() of a destination, pauses or waits.         *)
(***************************************************************************)
MaxDests == 3
MaxEnqueues == 4

Destinations == 1..MaxDests

\* destination.route_family: destination 1 is a route-target destination.
route_family(d) == IF d = 1 THEN "RF_RTC_UC" ELSE "RF_IPv4_UC"

\* LdpProcessor(core_service, work_units_per_cycle=1)
work_units_per_cycle == 1

is_on_list(q, d) == \E i \in 1..Len(q) : q[i] = d

\* Mutant of the test of _run before it waits: both queues are looked at.
NothingQueued_BothQueues(p) == p.dest_queue = <<>> /\ p.rtdest_queue = <<>>

\* The test of _run before it clears the event and waits.
NothingQueued(p) == p.dest_queue = <<>>

InitProc ==
    /\ SessionIdle
    /\ initalIsInitial = TRUE
    /\ lsr = [x \in LSRs |-> [router_id |-> LocalRouterId, role |-> "undecided"]]
    /\ ntf = NoNtf
    /\ disc = NoDisc
    /\ chan = NoChan
    /\ act = NoAct
    /\ rbuf = NoBuf
    /\ codec = NoCodec
    /\ rtconf = NoConf
    /\ life = [pc |-> "none"]
    /\ tmr = [pc |-> "none"]
    /\ proc = [pc |-> "run", at |-> "_process_rtdest", dest_queue |-> <<>>,
               rtdest_queue |-> <<>>, dest_que_evt |-> FALSE, dest_processed |-> 0,
               calls |-> 0, exc |-> "none"]

\* LdpProcessor.enqueue(destination), called by the destination being
\* processed or by a task that runs while the loop is suspended.
enqueue(d) ==
    /\ proc.pc = "run"
    /\ proc.at \in {"process", "process rt", "pause", "wait"}
    /\ proc.calls < MaxEnqueues
    /\ IF d = None
       THEN proc' = [proc EXCEPT !.calls = @ + 1, !.exc = "BgpProcessorError"]
       ELSE IF route_family(d) = "RF_RTC_UC"
            THEN proc' = [proc EXCEPT !.calls = @ + 1, !.exc = "none", !.dest_que_evt = TRUE,
                             !.rtdest_queue = IF is_on_list(@, d) THEN @ ELSE Append(@, d)]
            ELSE proc' = [proc EXCEPT !.calls = @ + 1, !.exc = "none", !.dest_que_evt = TRUE,
                             !.dest_queue = IF is_on_list(@, d) THEN @ ELSE Append(@, d)]
    /\ UNCHANGED <<sessionVars, lsr, ntf, disc, chan, act, rbuf, codec, rtconf, life, tmr>>

\* The loop of _process_rtdest: pop_first and process, until the queue is
\* empty; _process_dest follows.
ProcessRtdest ==
    /\ proc.pc = "run"
    /\ proc.at = "_process_rtdest"
    /\ IF proc.rtdest_queue = <<>>
       THEN proc' = [proc EXCEPT !.at = "_process_dest", !.dest_processed = 0]
       ELSE proc' = [proc EXCEPT !.at = "process rt", !.rtdest_queue = Tail(@)]
    /\ UNCHANGED <<sessionVars, lsr, ntf, disc, chan, act, rbuf, codec, rtconf, life, tmr>>

\* The loop of _process_dest and, when it ends, the rest of the cycle of
\* _run: with no destination queued the event is cleared and waited for,
\* otherwise the loop pauses.
ProcessDest ==
    /\ proc.pc = "run"
    /\ proc.at = "_process_dest"
    /\ IF proc.dest_processed < work_units_per_cycle /\ proc.dest_queue # <<>>
       THEN proc' = [proc EXCEPT !.at = "process", !.dest_queue = Tail(@)]
       ELSE IF NothingQueued(proc)
            THEN proc' = [proc EXCEPT !.at = "wait", !.dest_que_evt = FALSE]
            ELSE proc' = [proc EXCEPT !.at = "pause"]
    /\ UNCHANGED <<sessionVars, lsr, ntf, disc, chan, act, rbuf, codec, rtconf, life, tmr>>

\* next_dest.process() returns to the loop that called it.
ProcessReturns ==
    /\ proc.pc = "run"
    /\ proc.at \in {"process", "process rt"}
    /\ proc' = IF proc.at = "process"
               THEN [proc EXCEPT !.at = "_process_dest", !.dest_processed = @ + 1]
               ELSE [proc EXCEPT !.at = "_process_rtdest"]
    /\ UNCHANGED <<sessionVars, lsr, ntf, disc, chan, act, rbuf, codec, rtconf, life, tmr>>

\* pause(0) returns, or dest_que_evt.wait() does because the event is set.
ProcResume ==
    /\ proc.pc = "run"
    /\ proc.at = "pause" \/ (proc.at = "wait" /\ proc.dest_que_evt)
    /\ proc' = [proc EXCEPT !.at = "_process_rtdest"]
    /\ UNCHANGED <<sessionVars, lsr, ntf, disc, chan, act, rbuf, codec, rtconf, life, tmr>>

NextProc ==
    \/ \E d \in Destinations \cup {None} : enqueue(d)
    \/ ProcessRtdest
    \/ ProcessDest
    \/ ProcessReturns
    \/ ProcResume

SpecProc == InitProc /\ [][NextProc]_vars

(***************************************************************************)
(* One Timer of ldp_new/interface.py and the task that owns it.  thread is *)
(* Timer._thread, 0 for None or else the number of the greenlet start      *)
(* spawned; threads holds what each spawned greenlet of _timer is doing.   *)
(* hub.joinall is where the owner waits for the greenlet to end.           *)
(***************************************************************************)
MaxTimerOps == 4

\* Timer.is_running
is_running(t) == t.thread # 0

\* The greenlets of _timer that wait for the interval or run the handler.
Pending(t) == {k \in 1..Len(t.threads) : t.threads[k] \in {"wait", "handler"}}

\* The end of Timer.start: the event is cleared and _timer spawned.
Spawned(t) ==
    [t EXCEPT !.event = FALSE, !.threads = Append(@, "wait"),
              !.thread = Len(t.threads) + 1, !.owner = "idle"]

InitTimer ==
    /\ SessionIdle
    /\ initalIsInitial = TRUE
    /\ lsr = [x \in LSRs |-> [router_id |-> LocalRouterId, role |-> "undecided"]]
    /\ ntf = NoNtf
    /\ disc = NoDisc
    /\ chan = NoChan
    /\ act = NoAct
    /\ rbuf = NoBuf
    /\ codec = NoCodec
    /\ rtconf = NoConf
    /\ life = [pc |-> "none"]
    /\ proc = [pc |-> "none"]
    /\ tmr = [pc |-> "run", thread |-> 0, event |-> FALSE, threads |-> <<>>,
              owner |-> "idle", ops |-> 0, fired |-> 0, late |-> FALSE, last |-> "none"]

\* Timer.start(interval): a timer whose _thread is set is cancelled first,
\* which sets the event and joins the greenlet.
TimerStart ==
    /\ tmr.pc = "run"
    /\ tmr.owner = "idle"
    /\ tmr.ops < MaxTimerOps
    /\ LET t == [tmr EXCEPT !.ops = @ + 1, !.last = "start"]
       IN tmr' = IF is_running(tmr)
                 THEN [t EXCEPT !.event = TRUE, !.owner = "join in start"]
                 ELSE Spawned(t)
    /\ UNCHANGED <<sessionVars, lsr, ntf, disc, chan, act, rbuf, codec, rtconf, life, proc>>

\* Timer.cancel(): returns at once when _thread is None.
TimerCancel ==
    /\ tmr.pc = "run"
    /\ tmr.owner = "idle"
    /\ tmr.ops < MaxTimerOps
    /\ LET t == [tmr EXCEPT !.ops = @ + 1, !.last = "cancel"]
       IN tmr' = IF tmr.thread = 0
                 THEN t
                 ELSE [t EXCEPT !.event = TRUE, !.owner = "join in cancel"]
    /\ UNCHANGED <<sessionVars, lsr, ntf, disc, chan, act, rbuf, codec, rtconf, life, proc>>

\* hub.joinall returns, the greenlet has ended: _thread = None, and start
\* goes on to spawn the next greenlet.
TimerJoined ==
    /\ tmr.pc = "run"
    /\ tmr.owner \in {"join in start", "join in cancel"}
    /\ tmr.threads[tmr.thread] = "done"
    /\ tmr' = IF tmr.owner = "join in start"
              THEN Spawned([tmr EXCEPT !.thread = 0])
              ELSE [tmr EXCEPT !.thread = 0, !.owner = "idle"]
    /\ UNCHANGED <<sessionVars, lsr, ntf, disc, chan, act, rbuf, codec, rtconf, life, proc>>

\* Timer._timer: self._event.wait(interval) returns, True when the event is
\* set and otherwise when the interval has passed; the handler is called in
\* the second case.
TimerWaited(k) ==
    /\ tmr.pc = "run"
    /\ k \in 1..Len(tmr.threads)
    /\ tmr.threads[k] = "wait"
    /\ tmr' = IF tmr.event
              THEN [tmr EXCEPT !.threads[k] = "done"]
              ELSE [tmr EXCEPT !.threads[k] = "handler", !.fired = @ + 1,
                               !.late = @ \/ tmr.thread # k]
    /\ UNCHANGED <<sessionVars, lsr, ntf, disc, chan, act, rbuf, codec, rtconf, life, proc>>

\* The handler returns and the greenlet of _timer ends; _thread is left as
\* it is.
TimerHandled(k) ==
    /\ tmr.pc = "run"
    /\ k \in 1..Len(tmr.threads)
    /\ tmr.threads[k] = "handler"
    /\ tmr' = [tmr EXCEPT !.threads[k] = "done"]
    /\ UNCHANGED <<sessionVars, lsr, ntf, disc, chan, act, rbuf, codec, rtconf, life, proc>>

NextTimer ==
    \/ TimerStart
    \/ TimerCancel
    \/ TimerJoined
    \/ \E k \in 1..MaxTimerOps : TimerWaited(k)
    \/ \E k \in 1..MaxTimerOps : TimerHandled(k)

SpecTimer == InitTimer /\ [][NextTimer]_vars

(***************************************************************************)
(* One Activity.  Greenlets call start and stop on it; _run registers      *)
(* timers, child activities, child threads and sockets and ends by         *)
(* returning or by raising.  Activity.stop yields the hub where it kills   *)
(* the child threads, so another greenlet may run before it resets the     *)
(* activity.                                                               *)
(***************************************************************************)
MaxTasks == 2
MaxOps == 3

Tasks == 1..MaxTasks
MapNames == {"_timers", "_child_activity_map", "_child_thread_map", "_asso_socket_map"}
RunOutcomes == {"return", "LDPSException", "Exception"}

\* What the caller of start sees when _run has ended in this way: the
\* except clause of start swallows an LDPSException.
StartResult(outcome) == IF outcome = "Exception" THEN "raised" ELSE "returned"

\* Mutant of StopAfterRun: stop is called when _run returns, not when it
\* raises.
StopAfterRun_ReturnOnly(outcome, started) == started /\ outcome = "return"

\* The finally clause of Activity.start: stop is called on every way _run
\* ends when the activity is still started.
StopAfterRun(outcome, started) == started

InitLife ==
    /\ SessionIdle
    /\ initalIsInitial = TRUE
    /\ lsr = [x \in LSRs |-> [router_id |-> LocalRouterId, role |-> "undecided"]]
    /\ ntf = NoNtf
    /\ disc = NoDisc
    /\ chan = NoChan
    /\ act = NoAct
    /\ rbuf = NoBuf
    /\ codec = NoCodec
    /\ rtconf = NoConf
    /\ proc = [pc |-> "none"]
    /\ tmr = [pc |-> "none"]
    /\ life = [pc |-> "run", started |-> FALSE, maps |-> {}, ops |-> 0,
               op |-> [t |-> 0, call |-> "none"],
               at |-> [t \in Tasks |-> "idle"],
               ending |-> [t \in Tasks |-> "return"],
               last |-> [t \in Tasks |-> "none"]]

\* Activity.start up to the call of _run.
LifeStart(t) ==
    /\ life.pc = "run"
    /\ life.at[t] = "idle"
    /\ life.ops < MaxOps
    /\ IF life.started
       THEN life' = [life EXCEPT !.ops = @ + 1, !.op = [t |-> t, call |-> "start"],
                                 !.last[t] = "ActivityException"]
       ELSE life' = [life EXCEPT !.ops = @ + 1, !.op = [t |-> t, call |-> "start"],
                                 !.started = TRUE, !.at[t] = "_run"]
    /\ UNCHANGED <<sessionVars, lsr, ntf, disc, chan, act, rbuf, codec, rtconf, proc, tmr>>

\* _run registers something with the activity (_create_timer, _spawn,
\* _spawn_activity, _listen_tcp); _validate_callable refuses when the
\* activity is not started.
LifeRegister(t, m) ==
    /\ life.at[t] = "_run"
    /\ life.started
    /\ m \notin life.maps
    /\ life' = [life EXCEPT !.maps = @ \cup {m}, !.op = [t |-> t, call |-> "_run"]]
    /\ UNCHANGED <<sessionVars, lsr, ntf, disc, chan, act, rbuf, codec, rtconf, proc, tmr>>

\* _run ends; the finally clause of start calls stop, which runs up to the
\* kill of the child threads, or start ends at once.
LifeRunEnds(t, outcome) ==
    /\ life.at[t] = "_run"
    /\ IF StopAfterRun(outcome, life.started)
       THEN life' = [life EXCEPT !.at[t] = "stop", !.ending[t] = outcome,
                                 !.op = [t |-> t, call |-> "finally"]]
       ELSE life' = [life EXCEPT !.at[t] = "idle", !.last[t] = StartResult(outcome),
                                 !.op = [t |-> t, call |-> "leave start"]]
    /\ UNCHANGED <<sessionVars, lsr, ntf, disc, chan, act, rbuf, codec, rtconf, proc, tmr>>

\* Activity.stop called from outside start: it raises when the activity is
\* not started, else runs up to the kill of the child threads.
LifeStop(t) ==
    /\ life.pc = "run"
    /\ life.at[t] = "idle"
    /\ life.ops < MaxOps
    /\ IF ~life.started
       THEN life' = [life EXCEPT !.ops = @ + 1, !.op = [t |-> t, call |-> "stop"],
                                 !.last[t] = "ActivityException"]
       ELSE life' = [life EXCEPT !.ops = @ + 1, !.op = [t |-> t, call |-> "stop"],
                                 !.at[t] = "stop", !.ending[t] = "stop"]
    /\ UNCHANGED <<sessionVars, lsr, ntf, disc, chan, act, rbuf, codec, rtconf, proc, tmr>>

\* The rest of Activity.stop: the sockets are closed, _started is set to
\* False and the four maps are made anew; stop, and a start that called it,
\* return.
LifeStopEnds(t) ==
    /\ life.at[t] = "stop"
    /\ life' = [life EXCEPT !.started = FALSE, !.maps = {}, !.at[t] = "idle",
                            !.op = [t |-> t, call |-> IF life.ending[t] = "stop"
                                                      THEN "leave stop" ELSE "leave start"],
                            !.last[t] = IF life.ending[t] = "stop" THEN "stopped"
                                        ELSE StartResult(life.ending[t])]
    /\ UNCHANGED <<sessionVars, lsr, ntf, disc, chan, act, rbuf, codec, rtconf, proc, tmr>>

NextLife ==
    \/ \E t \in Tasks : LifeStart(t)
    \/ \E t \in Tasks, m \in MapNames : LifeRegister(t, m)
    \/ \E t \in Tasks, outcome \in RunOutcomes : LifeRunEnds(t, outcome)
    \/ \E t \in Tasks : LifeStop(t)
    \/ \E t \in Tasks : LifeStopEnds(t)

SpecLife == InitLife /\ [][NextLife]_vars

(***************************************************************************)
(* Claims about the session engine (Spec).                                 *)
(***************************************************************************)
Engines == {i \in Ifaces : peers[i].exists}

\* The state the role of the peer passes between Initial and Operational.
OpenStateOf(i) ==
    IF session[i].is_active THEN LDP_STATE_OPEN_SENT ELSE LDP_STATE_OPEN_REC

\* conn_handle was called with the first connection of the peer, no other
\* connection exists and the remote end keeps the connection open.
CleanRun(i) ==
    /\ conn[i][1].pc \notin {"none", "spawned"}
    /\ \A c \in ConnIds \ {1} : conn[i][c].pc = "none"
    /\ closed[i] = {}

\* A PDU of type m is delivered to the peer of interface i in this step.
Delivered(i, m) ==
    /\ nrecv'[i] = nrecv[i] + 1
    /\ Len(out'[i]) >= 1
    /\ out'[i][1].k = "recv"
    /\ out'[i][1].x = m

\* The type of the PDU the last step of the peer decoded, if it decoded one.
LastRecv(i) ==
    IF Len(out[i]) >= 1 /\ out[i][1].k = "recv" THEN out[i][1].x ELSE "none"

Positions(seq, k, x) == {n \in 1..Len(seq) : seq[n].k = k /\ seq[n].x = x}

\* C1 as stated: from NonExistent, for both roles, once the socket is bound
\* by conn_handle the engine is in Initial (the active role may already be
\* in OpenSent), once the peer's Init has arrived it is in OpenSent (active)
\* or OpenRec (passive), and once the KeepAlive has arrived too it is
\* Operational, having passed exactly Initial, OpenSent/OpenRec, Operational.
C1_HandshakeReachesOperational ==
    \A i \in Engines :
        CleanRun(i) =>
            /\ nrecv[i] = 0 =>
                  \/ trail[i] = <<LDP_STATE_INITIAL>>
                  \/ /\ session[i].is_active
                     /\ trail[i] = <<LDP_STATE_INITIAL, LDP_STATE_OPEN_SENT>>
            /\ (nrecv[i] = 1 /\ LastRecv(i) = LDP_MSG_INIT) =>
                  /\ peers[i].state = OpenStateOf(i)
                  /\ trail[i] = <<LDP_STATE_INITIAL, OpenStateOf(i)>>
            /\ (nrecv[i] = 2 /\ rcvd[i] = {LDP_MSG_INIT, LDP_MSG_KEEPALIVE}
                    /\ LastRecv(i) = LDP_MSG_KEEPALIVE) =>
                  /\ peers[i].state = LDP_STATE_OPERATIONAL
                  /\ trail[i] = <<LDP_STATE_INITIAL, OpenStateOf(i),
                                  LDP_STATE_OPERATIONAL>>

\* The message types the stated FSM does not accept in a state.
InvalidIn(state, m) ==
    \/ m = LDP_MSG_INIT /\ state \notin {LDP_STATE_INITIAL, LDP_STATE_OPEN_REC}
    \/ m = LDP_MSG_KEEPALIVE
          /\ state \notin {LDP_STATE_OPEN_SENT, LDP_STATE_OPEN_REC,
                            LDP_STATE_OPERATIONAL}

\* C2 as stated: a message whose type is not valid in the current state makes
\* the engine send a Notification and move to Closed, with no transition to
\* any other state.
C2_InvalidMessageNotifiesAndCloses ==
    [][\A i \in Engines : \A m \in {LDP_MSG_INIT, LDP_MSG_KEEPALIVE} :
          (Delivered(i, m) /\ InvalidIn(peers[i].state, m)) =>
              /\ Positions(out'[i], "send", LDP_MSG_NOTIFICATION) # {}
              /\ peers'[i].state = "Closed"
              /\ \A n \in 1..Len(out'[i]) :
                    out'[i][n].k = "event" => out'[i][n].y = "Closed"]_vars

\* The transitions of the stated FSM for the role of the peer.
Forward(i, s, t) ==
    \/ t = "Closed"
    \/ s = LDP_STATE_NON_EXISTENT /\ t = LDP_STATE_INITIAL
    \/ s = LDP_STATE_INITIAL /\ t = OpenStateOf(i)
    \/ s = OpenStateOf(i) /\ t = LDP_STATE_OPERATIONAL

C6_InitialOnBind ==
    \A i \in Engines :
        peers[i].sock # NoSocket =>
            /\ trail[i] # <<>>
            /\ trail[i][1] = LDP_STATE_INITIAL
            /\ session[i].is_active => LDP_MSG_INIT \in sent[i]
            /\ (~session[i].is_active /\ nrecv[i] = 0) => sent[i] = {}

\* C7 as stated: the passive role answers the peer's Init, received in
\* Initial, with its Init, then a KeepAlive, then starts the keepalive
\* timer; the active role answers the peer's Init with a KeepAlive and then
\* starts the timer; no KeepAlive of the passive role precedes its Init and
\* no timer start precedes the first KeepAlive.
C7_InitAnswered ==
    [][\A i \in Engines :
          LET o == out'[i]
              inits == Positions(o, "send", LDP_MSG_INIT)
              keeps == Positions(o, "send", LDP_MSG_KEEPALIVE)
              timers == Positions(o, "timer", "keepalive")
          IN /\ (Delivered(i, LDP_MSG_INIT) /\ ~session[i].is_active
                    /\ peers[i].state = LDP_STATE_INITIAL) =>
                   \E a \in inits, b \in keeps, c \in timers : a < b /\ b < c
             /\ (Delivered(i, LDP_MSG_INIT) /\ session[i].is_active) =>
                   \E b \in keeps, c \in timers : b < c
             /\ ~session[i].is_active =>
                   \A b \in keeps :
                      LDP_MSG_INIT \in sent[i] \/ \E a \in inits : a < b
             /\ \A c \in timers :
                      LDP_MSG_KEEPALIVE \in sent[i] \/ \E b \in keeps : b < c]_vars

\* C10 as stated: for every router id a Hello was received from, exactly one
\* Peer is registered and at most one session thread was spawned: a further
\* Hello of a registered router id adds nothing, a Hello of an unseen router
\* id gets a Peer of its own.
C10_OnePeerPerRouterId ==
    \A r \in heard :
        /\ Cardinality({i \in Engines : peers[i].router_id = r}) = 1
        /\ Cardinality({i \in Engines :
                            peers[i].router_id = r /\ session[i].st # "none"}) <= 1

\* The receive loop of connection c of the peer ends in this step.
LoopEnds(i, c) == conn[i][c].pc = "recv" /\ conn'[i][c].pc \in {"done", "dead"}

\* C11 as stated: when a session ends (its receive loop ends on a socket
\* error, a zero-length read, an unparseable stream or a violation) the
\* socket is closed, the timers are stopped and the registry entry of the
\* peer is removed, so that the next Hello creates a fresh Peer.
C11_TeardownReleasesPeer ==
    [][\A i \in Engines : \A c \in ConnIds :
          LoopEnds(i, c) =>
              /\ Positions(out'[i], "close", "") # {}
              /\ Positions(out'[i], "timer", "stop") # {}
              /\ ~peers'[i].exists]_vars

\* Positions of the Notifications sent in the log of the session.
Notified == Positions(ntf.log, "send", LDP_MSG_NOTIFICATION)

Dropped(i) == disc.pc = "run" /\ disc'.dropped[i] = disc.dropped[i] + 1

Inside(c) == {t \in Callers : c.at[t] = "inside"}

\* C17: at most one task is inside sendto at any time, whichever callers
\* send concurrently, and a step of the receive loop neither takes nor
\* releases the send lock nor moves a caller.
C17_SendtoMutuallyExclusive ==
    [][/\ Cardinality(Inside(chan)) <= 1
       /\ Cardinality(Inside(chan')) <= 1
       /\ (chan'.recvd # chan.recvd) =>
              (chan'.lock = chan.lock /\ chan'.at = chan.at)]_vars

\* One caller is inside sendto, another waits for the lock, and the receive
\* loop took a datagram while the lock was held.
C17_Witness ==
    /\ chan.pc = "run"
    /\ chan.recvHeld
    /\ \E t, u \in Callers : chan.at[t] = "inside" /\ chan.at[u] = "acquire"

\* C18: for as long as the interface runs a Hello is transmitted again
\* every send_interval: after a Hello its timer is armed, or on its way to
\* the next transmission.
C18_HelloSentPeriodically ==
    chan.pc = "run" => chan.at[TimerTask] \in {"armed", "acquire", "inside"}

\* C19: of two calls of start with no stop between them the second fails
\* with an already-started error, whatever the spawned core task has done
\* by then.
C19_SecondStartFails ==
    \A j, k \in 1..Len(act.results) :
        (j < k /\ act.results[j].epoch = act.results[k].epoch
               /\ act.results[j].res = "True") =>
            act.results[k].res = "RuntimeConfigError"

\* C20: in Activity.stop the timers are stopped before the child activities
\* and threads are stopped and before the sockets are closed, and no timer
\* callback fires once the sockets are closed.
C20_TimersStoppedFirst ==
    [][/\ (act.part.children = "running" /\ act'.part.children = "stopped")
             => act.part.timer = "stopped"
       /\ (act.part.threads = "running" /\ act'.part.threads = "killed")
             => act.part.timer = "stopped"
       /\ (act.part.sockets = "open" /\ act'.part.sockets = "closed")
             => act.part.timer = "stopped"
       /\ (act'.fires # act.fires) => act.part.sockets = "open"]_vars

\* A core service whose timer had fired was stopped completely.
C20_Witness ==
    /\ act.pc = "run"
    /\ act.core = "stopped"
    /\ act.fires > 0
    /\ act.part = [timer |-> "stopped", children |-> "stopped",
                   threads |-> "killed", sockets |-> "closed"]

\* The octets Peer._recv_buff holds once the octets of this step are added.
SoFar == rbuf.buff \o Take(rbuf.stream, Len(rbuf.stream) - Len(rbuf'.stream))

\* C21: the receive buffer yields a PDU only when the 10 octets of the PDU
\* header are buffered and len(buffer) - 4 is at least the PDU length the
\* header declares; otherwise no message is handled, nothing fails, and the
\* buffer keeps exactly the octets received so far.
C21_PartialPduStaysBuffered ==
    [][(rbuf.pc = "recv" /\ rbuf'.stream # rbuf.stream) =>
          IF Len(SoFar) >= 10 /\ Len(SoFar) - 4 >= Rd16(SoFar, 3)
          THEN rbuf'.handled # rbuf.handled
          ELSE /\ rbuf'.handled = rbuf.handled
               /\ rbuf'.buff = SoFar
               /\ rbuf'.pc = "recv"]_vars

\* A PDU has been handled and the octets of the next one, its header
\* complete, wait in the buffer.
C21_Witness ==
    /\ rbuf.pc = "recv"
    /\ Len(rbuf.handled) = 1
    /\ Len(rbuf.buff) >= 10
    /\ rbuf.stream # <<>>

\* C22: an active connect attempt that is refused or times out fails: no
\* socket is handed to conn_handle, the Peer stays in NonExistent, and the
\* transport makes no further attempt.
C22_FailedConnectNotRetried ==
    [][\A i \in Ifaces :
          /\ (session[i].is_active /\ session[i].st = "spawned"
                  /\ session'[i].st = "failed")
                => /\ conn'[i] = [c \in ConnIds |-> NoConn]
                   /\ peers'[i].state = LDP_STATE_NON_EXISTENT
          /\ (session[i].is_active /\ session[i].st = "failed")
                => /\ session'[i] = session[i]
                   /\ conn'[i] = [c \in ConnIds |-> NoConn]
                   /\ peers'[i].state = LDP_STATE_NON_EXISTENT]_vars

\* The connect of an active session failed while no other session held the
\* address, and the other interface has gone on to a session of its own.
C22_Witness ==
    \E i \in Ifaces : \E j \in Ifaces \ {i} :
        /\ session[i].is_active
        /\ session[i].st = "failed"
        /\ session[j].st = "none"
        /\ peers[i].exists

DecodeFails(i) ==
    /\ nrecv'[i] = nrecv[i] + 1
    /\ ~(Len(out'[i]) >= 1 /\ out'[i][1].k = "recv")

\* C13 as stated: a decode failure on the byte stream of a session is fatal
\* to it: a Notification is sent, the socket is closed and the receive loop
\* handles nothing further.
C13_DecodeFailureIsFatal ==
    [][\A i \in Engines :
          DecodeFails(i) =>
              /\ \E a \in Positions(out'[i], "send", LDP_MSG_NOTIFICATION) :
                    \E b \in Positions(out'[i], "close", "") : a < b
              /\ \E c \in ConnIds : LoopEnds(i, c)]_vars

\* C15 as stated, its safety half: every message received on a session, of
\* any type, resets the hold timer of the engine.  (The other half, that
\* the session is torn down when the hold time passes without a message,
\* is about the expiry of the same timer.)
C15_EveryMessageResetsHoldTimer ==
    [][\A i \in Engines : \A m \in RecvTypes :
          Delivered(i, m) => Positions(out'[i], "timer", "hold") # {}]_vars

\* C16 as stated: no two receive loops run on the same Peer object at any
\* time; every accepted or connected socket has a Peer of its own.
C16_OneReceiveLoopPerPeer ==
    \A i \in Engines : Cardinality({c \in ConnIds : conn[i][c].pc = "recv"}) <= 1

(***************************************************************************)
(* Claims about the role decision (SpecRole).                              *)
(***************************************************************************)
\* Numeric order of two dotted quads read as big-endian 32-bit integers,
\* stated octet by octet: the most significant differing octet decides.
NumericallySmaller(a, b) ==
    \E k \in 1..4 : a[k] < b[k] /\ \A j \in 1..(k - 1) : a[j] = b[j]

Decided(x) == lsr[x].role # "undecided"

\* C8 as stated: on the first Hello of a neighbor an LSR takes the active
\* role exactly when its own router id is numerically smaller than the
\* neighbor's, and the passive role otherwise.
C8_SmallerIdIsActive ==
    \A x \in LSRs :
        Decided(x) =>
            (lsr[x].role = "active"
                <=> NumericallySmaller(lsr[x].router_id, lsr[Other(x)].router_id))

\* C8 as amended: on the first Hello of a neighbor an LSR takes the active
\* role exactly when its own router id, read as a big-endian 32-bit integer,
\* is numerically larger than the neighbor's; otherwise it is passive.
C8_LargerIdIsActive ==
    \A x \in LSRs :
        Decided(x) =>
            /\ lsr[x].role \in {"active", "passive"}
            /\ lsr[x].role = "active"
                  <=> NumericallySmaller(lsr[Other(x)].router_id, lsr[x].router_id)

\* An LSR decided to be active against a neighbor whose id is smaller in
\* network byte order and larger in host byte order.
C8_Witness ==
    \E x \in LSRs :
        /\ lsr[x].role = "active"
        /\ lsr[x].router_id = <<1, 1, 2, 0>>
        /\ lsr[Other(x)].router_id = <<1, 1, 0, 2>>

\* C9: for two distinct router ids the roles the two LSRs decide, each on
\* seeing the other's Hello, are complementary: exactly one is active and
\* the other passive.
C9_RolesComplementary ==
    (/\ \A x \in LSRs : Decided(x)
     /\ lsr["A"].router_id # lsr["B"].router_id)
        => \E x \in LSRs :
              /\ lsr[x].role = "active"
              /\ lsr[Other(x)].role = "passive"

\* Both LSRs have decided, with distinct ids that differ in two octets.
C9_Witness ==
    /\ lsr["A"].router_id = <<1, 1, 0, 2>>
    /\ lsr["B"].router_id = <<1, 1, 2, 0>>
    /\ lsr["A"].role = "passive"
    /\ lsr["B"].role = "active"

(***************************************************************************)
(* Claims about the codec (SpecCodec).                                     *)
(***************************************************************************)
\* C24 as stated: for every message type, every TLV and FEC type and all
\* field values in their valid ranges (the t, r, a and d bits set, messages
\* without TLVs and FEC TLVs of several elements included), parsing the
\* serialized message yields a message equal to the original, attribute by
\* attribute, and leaves no octet unconsumed.
C24_RoundTrip ==
    codec.pc = "parsed" =>
        /\ codec.res.ok
        /\ codec.res.obj = codec.sent
        /\ codec.res.rest = <<>>

\* The TLV octets b are those of the TLVs ts, one after the other, each with
\* a length field that counts the octets of its value and nothing else.
RECURSIVE WireTlvs(_, _)
WireTlvs(b, ts) ==
    IF ts = <<>> THEN b = <<>>
    ELSE /\ Len(b) >= LDP_TLV_SIZE
         /\ Rd16(b, 1) = Head(ts).cls
         /\ Rd16(b, 3) = Len(TlvValue(Head(ts)))
         /\ WireTlvs(Drop(b, LDP_TLV_SIZE + Len(TlvValue(Head(ts)))), Tail(ts))

\* C25: serialize recomputes the derived lengths whatever the caller left
\* in them: the length field of the PDU header is the length of the
\* serialized message plus 6, the length field of the message is 4 plus the
\* sizes of the serialized TLVs, and the length field of each TLV counts its
\* value without the 4 octets of type and length; the attributes of the
\* message are set to the same values.
C25_LengthsRecomputed ==
    codec.pc = "wire" =>
        /\ Rd16(codec.bin, 3) = (Len(codec.bin) - 10) + 6
        /\ Rd16(codec.bin, 13) = 4 + (Len(codec.bin) - 18)
        /\ WireTlvs(Drop(codec.bin, 18), codec.msg.tlvs)
        /\ codec.sent.header.length = Rd16(codec.bin, 3)
        /\ codec.sent.msg_len = Rd16(codec.bin, 13)

\* A message of two TLVs, built with 7 in every length attribute, has been
\* serialized and its message length is no longer 7.
C25_Witness ==
    /\ codec.pc = "wire"
    /\ codec.msg.msg_len = 7
    /\ codec.msg.header.length = 7
    /\ Len(codec.msg.tlvs) = 2
    /\ \A k \in 1..2 : codec.msg.tlvs[k].len = 7
    /\ codec.sent.msg_len > 7

\* C26 as stated: decoding a proper prefix of a valid encoded message always
\* fails with TooSmallException, at whatever nesting level the octets end;
\* it never yields a message and never fails in another way.
C26_PrefixIsTooSmall ==
    codec.pc = "cut" =>
        /\ ~codec.res.ok
        /\ codec.res.exc = "TooSmallException"

\* The parser can build the class of the message: LDPNotification, which
\* has no __init__ for the keyword arguments of the parser, is left out so
\* that a statement about TLVs is not refuted by the message class alone.
Instantiable(m) == m.type # CODE_NOTIFICATION

\* C27 as stated: decoding a message with a TLV of an unregistered type does
\* not fail, and encoding the decoded message again reproduces the octets.
C27_UnknownTlvPassesThrough ==
    (codec.pc = "foreign" /\ Instantiable(codec.sent)) =>
        /\ codec.res.ok
        /\ serialize(codec.res.obj).bin = codec.bin

\* The Fec TLVs of a message.
FecTlvs(m) == {m.tlvs[k] : k \in {j \in 1..Len(m.tlvs) : m.tlvs[j].cls = LDP_TLV_FEC}}

\* C28 as stated: decoding a message with a FEC TLV of no element fails with
\* MalformedFec, and decoding one with a Prefix element whose prefix length
\* is above 32 fails with InvalidPrefixLength; neither yields a message.
C28_MalformedFecRejected ==
    (codec.pc = "parsed" /\ Instantiable(codec.sent)) =>
        /\ (\E t \in FecTlvs(codec.sent) : t.fec_elements = <<>>)
              => (~codec.res.ok /\ codec.res.exc = "MalformedFec")
        /\ (/\ \A t \in FecTlvs(codec.sent) : t.fec_elements # <<>>
            /\ \E t \in FecTlvs(codec.sent) :
                  \E e \in 1..Len(t.fec_elements) : t.fec_elements[e].element_len > 32)
              => (~codec.res.ok /\ codec.res.exc = "InvalidPrefixLength")

\* C29 as stated: while decoding, each TLV, and each element of a FEC TLV,
\* consumes exactly its own extent: the TLVs decoded are as many as were
\* written, element e of a FEC TLV is decoded from the first octet after
\* element e - 1 and takes the 8 octets of one element, and the octets
\* returned as remaining are those after the PDU.
C29_ExtentsConsumed ==
    /\ codec.pc = "wire" =>
          \A t \in FecTlvs(codec.sent) : \A e \in 1..Len(t.fec_elements) :
              LET r == PrefixFecElement_parse(Drop(TlvValue(t), 8 * (e - 1)))
              IN r.ok /\ 1 + r.len = 8
    /\ (codec.pc = "parsed" /\ codec.res.ok) =>
          /\ Len(codec.res.obj.tlvs) = Len(codec.sent.tlvs)
          /\ codec.res.rest = <<>>

(***************************************************************************)
(* Claims about the configuration (SpecConf).                              *)
(***************************************************************************)
\* What the configuration surface asks of the value of a setting; None
\* stands for a setting that is not given.
WellFormed(name, x) ==
    CASE name = ROUTER_ID -> x = StrV(1)
      [] name = ENABLE_INTS -> x = ListV(1)
      [] name = HELLO_INTERVAL -> x.ty = "int" /\ x.v >= 1
      [] name = HOLD_TIME -> x.ty = "int" /\ x.v >= 10
      [] name = KEEP_ALIVE -> x.ty = "int" /\ x.v >= 10
      [] name = LDP_SERVER_PORT -> x.ty = "int" /\ x.v \in 1..65535
      [] OTHER -> TRUE

\* The configuration lacks a required setting, has a setting the
\* configuration class does not know, or has a value of a wrong type or out
\* of its range.
Invalid(kw) ==
    \/ \E n \in REQUIRED_SETTINGS : kw[n] \in {Absent, NoneV}
    \/ \E n \in Keywords \ (REQUIRED_SETTINGS \cup OPTIONAL_SETTINGS) : kw[n] # Absent
    \/ \E n \in Keywords : kw[n] \notin {Absent, NoneV} /\ ~WellFormed(n, kw[n])

\* C30: when the configuration given to start lacks a required setting, has
\* an unknown setting or a value of a wrong type or out of range, every call
\* of start raises to its caller, no core task is spawned and the started
\* flag of the core manager stays false.
C30_BadConfigRaises ==
    Invalid(rtconf.kwargs) =>
        /\ rtconf.raised = rtconf.calls
        /\ rtconf.calls > 0 => rtconf.exc \in {"MissingRequiredConf", "RuntimeConfigError",
                                               "ConfigTypeError", "ConfigValueError"}
        /\ rtconf.pending = 0
        /\ ~rtconf.started

\* start was called with both required settings right and a hold time
\* under 10, and raised ConfigValueError.
C30_Witness ==
    /\ rtconf.calls > 0
    /\ rtconf.kwargs[ROUTER_ID] = StrV(1)
    /\ rtconf.kwargs[ENABLE_INTS] = ListV(1)
    /\ rtconf.kwargs[HOLD_TIME] = IntV(9)
    /\ rtconf.exc = "ConfigValueError"
    /\ rtconf.raised = rtconf.calls

(***************************************************************************)
(* Claims about the Activity life cycle (SpecLife).                        *)
(***************************************************************************)
\* The start that greenlet t called returns or raises in this step, having
\* run _run.
StartLeaves(t) == life' # life /\ life'.op = [t |-> t, call |-> "leave start"]

\* Greenlet t calls stop in this step, from outside start.
StopCalled(t) == life' # life /\ life'.op = [t |-> t, call |-> "stop"]

SameAsCurrent == \A n \in Keywords : rtconf'.given[n] \in {Absent, rtconf.settings[n]}

\* C32: update with values equal to the current ones leaves the settings
\* unchanged and emits no CONF_CHANGED event; the event is emitted, and the
\* settings given overwritten, exactly when a value given differs from the
\* current one; a value that is not valid makes update raise with no
\* setting modified and no event.
C32_UpdateIdempotent ==
    [][rtconf'.calls = rtconf.calls + 1 =>
          /\ (\E n \in Keywords : rtconf'.given[n] # Absent /\ ~WellFormed(n, rtconf'.given[n]))
                => rtconf'.exc # "none"
          /\ rtconf'.exc # "none" =>
                (rtconf'.settings = rtconf.settings /\ rtconf'.events = rtconf.events)
          /\ (rtconf'.exc = "none" /\ SameAsCurrent) =>
                (rtconf'.settings = rtconf.settings /\ rtconf'.events = rtconf.events)
          /\ (rtconf'.exc = "none" /\ ~SameAsCurrent) =>
                /\ rtconf'.events = rtconf.events + 1
                /\ \A n \in Keywords :
                      rtconf'.settings[n] = IF rtconf'.given[n] # Absent THEN rtconf'.given[n]
                                            ELSE rtconf.settings[n]]_vars

\* The hold time was changed to 20 by one update, which emitted the event,
\* and the same update was applied a second time without another event.
C32_Witness ==
    /\ rtconf.pc = "conf"
    /\ rtconf.calls = 2
    /\ rtconf.events = 1
    /\ rtconf.exc = "none"
    /\ rtconf.given[HOLD_TIME] = IntV(20)
    /\ rtconf.settings[HOLD_TIME] = IntV(20)

(***************************************************************************)
(* Claims about LdpProcessor (SpecProc).                                   *)
(***************************************************************************)
\* C33: no destination is twice on its queue, and a loop that waits for
\* the wake-up event has no destination left to process: every enqueue
\* sets the event, so the loop never sleeps on a destination that was
\* enqueued.
C33_EnqueuedIsProcessed ==
    proc.pc = "run" =>
        /\ \A i, j \in 1..Len(proc.dest_queue) :
              proc.dest_queue[i] = proc.dest_queue[j] => i = j
        /\ \A i, j \in 1..Len(proc.rtdest_queue) :
              proc.rtdest_queue[i] = proc.rtdest_queue[j] => i = j
        /\ (proc.at = "wait" /\ ~proc.dest_que_evt) =>
              (proc.dest_queue = <<>> /\ proc.rtdest_queue = <<>>)

(***************************************************************************)
(* Claims about the chunking of the received stream (SpecChunk).           *)
(***************************************************************************)
\* C34: what the session engine handles depends on the octets received and
\* not on how recv cut them: once all octets are delivered, the messages
\* handled and the octets left in the buffer are those of one
\* data_received call with the whole stream, and the receive loop fails
\* before the end of the stream only if that call fails too.
C34_ChunkingInvisible ==
    rbuf.pc \in {"recv", "lost"} =>
        LET whole == DataLoop(rbuf.whole, <<>>)
        IN /\ rbuf.stream = <<>> =>
                 (rbuf.handled = whole.handled /\ rbuf.buff = whole.buff)
           /\ (rbuf.pc = "lost" /\ rbuf.stream # <<>>) => whole.exc

C36_EveryStateHasAnEntry ==
    \A i \in Ifaces :
        (peers[i].exists /\ peers[i].map # "empty") =>
            /\ LDP_STATE_INITIAL \in DOMAIN StateMapOf(peers[i].map)
            /\ peers[i].impl # "unset" =>
                  NewState(peers[i].impl) \in DOMAIN StateMapOf(peers[i].map)
            /\ \A c \in ConnIds : conn[i][c].pc # "dead"
            /\ state_change(peers[i], peers[i].state) = Result(peers[i], <<>>, FALSE)

(***************************************************************************)
(* Claims about the send lock under fair scheduling (SpecSendFair).        *)
(***************************************************************************)
\* C37: the send lock is held exactly by the task inside sendto, so it is
\* released when sendto is left, whether the send returned or raised; and
\* every task that waits for the lock acquires it in the end.
C37_LockAlwaysReleased ==
    /\ [](chan.pc = "run" =>
             chan.lock = 1 - Cardinality({t \in Callers : chan.at[t] = "inside"}))
    /\ \A t \in Callers :
          (chan.pc = "run" /\ chan.at[t] = "acquire") ~> (chan.at[t] = "inside")

\* No datagram has reached the wire, a caller has left sendto by the
\* exception of a failed send, and another task holds the lock after it.
C37_Witness ==
    /\ chan.pc = "run"
    /\ chan.wire = 0
    /\ \E t \in Callers, u \in Callers :
          /\ t # u
          /\ chan.at[t] = "inside"
          /\ chan.calls[u] = 1
          /\ chan.at[u] = "idle"

(***************************************************************************)
(* Claims about repeated serialization (SpecCodec).                        *)
(***************************************************************************)
\* C38: serializing a message object that has been serialized before
\* yields the octets of the first serialization: the length of the PDU
\* header is set anew on every call, so the 6 that the header adds to it
\* does not accumulate.
C38_SerializeRepeatable ==
    codec.pc = "same" =>
        /\ codec.again = codec.bin
        /\ codec.sent.header.length = (Len(codec.bin) - 10) + 6

\* A message with a TLV has been serialized three times in all.
C38_Witness ==
    /\ codec.pc = "same"
    /\ codec.times = 2
    /\ codec.msg.tlvs # <<>>
    /\ codec.msg.header.length = None

(***************************************************************************)
(* Claims about Timer (SpecTimer).                                         *)
(***************************************************************************)
\* C39: a Timer has at most one pending firing; its handler is not called
\* by a greenlet that a cancel has already joined; and whenever the owner
\* is outside start and cancel, is_running() is true exactly while a firing
\* is pending.
C39_OnePendingFiring ==
    tmr.pc = "run" =>
        /\ Cardinality(Pending(tmr)) <= 1
        /\ ~tmr.late
        /\ tmr.owner = "idle" => (is_running(tmr) <=> Pending(tmr) # {})

=============================================================================
